---------------------------- MODULE Spec2Model ----------------------------
(***************************************************************************)
(* congress2dataset: the bill page parser (parse/bill.py).                 *)
(*                                                                         *)
(* Python strings are sequences of one-character strings, so that strip,   *)
(* split, replace and startswith act on characters as they do in Python.   *)
(* A parsed page (BeautifulSoup) is a record holding, per section, the     *)
(* elements the extractors look up.  A Python value that may be None is    *)
(* [k |-> "none"] or [k |-> "val", v |-> x]; a dict key that is not set is *)
(* [k |-> "absent"].                                                       *)
(***************************************************************************)
EXTENDS Integers, Sequences, FiniteSets, TLC

VARIABLES
    pc,     \* "ready" before a call, "returned" or "raised" after it; for
            \* parse() "running", "done" or "raised"
    fn,     \* the function that was called ("none" before the call)
    arg,    \* the input of a text-run parser, with the parts it was built from
    ret,    \* what the text-run parser returned
    soup,   \* the parsed page handed to an extractor
    bill0,  \* the bill record on entry of the extractor
    bill,   \* the bill record (a dict the extractors update in place)
    exc,    \* the exception that left the function, "none" if it returned
    fs,     \* parse(): the saved page files of the batch, sorted
    at,     \* parse(): the position in fs of the file the loop is at
    collection, \* the bills collection of the store, in insertion order
    runs,   \* the runs of parse() that have ended
    once,   \* the collection as the first run of parse() left it
    log     \* what parse() has done: store operations and extractions, per file

store_vars == <<fs, at, collection, runs, once, log>>

vars == <<pc, fn, arg, ret, soup, bill0, bill, exc, fs, at, collection, runs, once, log>>

-----------------------------------------------------------------------------
(* Python values *)

NoneV == [k |-> "none"]
Absent == [k |-> "absent"]
Val(x) == [k |-> "val", v |-> x]

-----------------------------------------------------------------------------
(* str methods *)

Whitespace == {" ", "\n", "\t", "\r"}

CharsOf(t) == {t[i] : i \in 1..Len(t)}

RECURSIVE LStripChars(_, _)
LStripChars(s, cs) ==
    IF s # <<>> /\ Head(s) \in cs THEN LStripChars(Tail(s), cs) ELSE s

RECURSIVE RStripChars(_, _)
RStripChars(s, cs) ==
    IF s # <<>> /\ s[Len(s)] \in cs
    THEN RStripChars(SubSeq(s, 1, Len(s) - 1), cs)
    ELSE s

StripChars(s, cs) == RStripChars(LStripChars(s, cs), cs)

Strip(s) == StripChars(s, Whitespace)

StartsWith(s, p) == Len(p) <= Len(s) /\ SubSeq(s, 1, Len(p)) = p

EndsWith(s, p) ==
    Len(p) <= Len(s) /\ SubSeq(s, Len(s) - Len(p) + 1, Len(s)) = p

\* str.find, 1-based; 0 when sub does not occur
Find(s, sub) ==
    LET I == {i \in 1..(Len(s) - Len(sub) + 1) :
                 SubSeq(s, i, i + Len(sub) - 1) = sub}
    IN  IF I = {} THEN 0 ELSE CHOOSE i \in I : \A j \in I : i <= j

Contains(s, sub) == Find(s, sub) # 0

RECURSIVE Split(_, _)
Split(s, sep) ==
    LET i == Find(s, sep)
    IN  IF i = 0
        THEN <<s>>
        ELSE <<SubSeq(s, 1, i - 1)>> \o Split(SubSeq(s, i + Len(sep), Len(s)), sep)

RECURSIVE Join(_, _)
Join(sep, parts) ==
    IF parts = <<>> THEN <<>>
    ELSE IF Len(parts) = 1 THEN parts[1]
    ELSE parts[1] \o sep \o Join(sep, Tail(parts))

\* str.replace with a non-empty old: every non-overlapping occurrence
Replace(s, old, new) == Join(new, Split(s, old))

Count(s, sub) == Len(Split(s, sub)) - 1

UpperLetters == <<"A","B","C","D","E","F","G","H","I","J","K","L","M",
                  "N","O","P","Q","R","S","T","U","V","W","X","Y","Z">>
LowerLetters == <<"a","b","c","d","e","f","g","h","i","j","k","l","m",
                  "n","o","p","q","r","s","t","u","v","w","x","y","z">>

LowerChar(c) ==
    IF \E i \in 1..26 : UpperLetters[i] = c
    THEN LowerLetters[CHOOSE i \in 1..26 : UpperLetters[i] = c]
    ELSE c

Lower(s) == [i \in 1..Len(s) |-> LowerChar(s[i])]

-----------------------------------------------------------------------------
(* parse_php_array *)

c_ArrayEnvelope == <<"A", "r", "r", "a", "y", "\n", "(", "\n">>
c_CloseEnvelope == <<"\n", ")">>
c_Arrow == <<"=", ">">>
c_KeyDecoration == <<"[", "]", " ">>

\* the loop over the lines: a dict as a function from key to value, a later
\* pair overwriting an earlier one with the same key; "ValueError" when a
\* line does not split into exactly two parts
RECURSIVE php_pairs(_, _)
php_pairs(pairs, parsed_dict) ==
    IF pairs = <<>> THEN [exc |-> "none", v |-> parsed_dict]
    ELSE LET parts == Split(Head(pairs), c_Arrow)
         IN  IF Len(parts) # 2 THEN [exc |-> "ValueError", v |-> parsed_dict]
             ELSE LET key == StripChars(Strip(parts[1]), CharsOf(c_KeyDecoration))
                      value == Strip(parts[2])
                      rest == [k \in DOMAIN parsed_dict \ {key} |-> parsed_dict[k]]
                  IN  php_pairs(Tail(pairs), (key :> value) @@ rest)

php_envelope(array_str) ==
    Strip(StripChars(StripChars(array_str, CharsOf(c_ArrayEnvelope)),
                     CharsOf(c_CloseEnvelope)))

parse_php_array(array_str) ==
    php_pairs(Split(php_envelope(array_str), <<"\n">>), <<>>)

-----------------------------------------------------------------------------
(* parse_overview_sponsor, parse_cosponsor *)

c_Rep == <<"R", "e", "p", ".">>
c_Sen == <<"S", "e", "n", ".">>
c_Del == <<"D", "e", "l", ".">>
c_ResCom == <<"R", "e", "s", "i", "d", "e", "n", "t", " ",
              "C", "o", "m", "m", "i", "s", "s", "i", "o", "n", "e", "r">>
c_PrivateMarker == <<"(", "P", "r", "i", "v", "a", "t", "e", " ", "L", "e", "g",
                     "i", "s", "l", "a", "t", "i", "o", "n", ")">>

valid_titles == {c_Rep, c_Sen, c_Del, c_ResCom}

NoPerson ==
    [title |-> <<>>, party |-> <<>>, state |-> <<>>, district |-> NoneV,
     last_name |-> <<>>, full_name |-> <<>>]

\* position_of taking the first three of any longer list of fields
position_of_first_three(f) ==
    IF Len(f) = 2 THEN [exc |-> "none", party |-> f[1], state |-> f[2],
                        district |-> NoneV]
    ELSE IF Len(f) >= 3 THEN [exc |-> "none", party |-> f[1], state |-> f[2],
                              district |-> Val(f[3])]
    ELSE [exc |-> "ValueError", party |-> <<>>, state |-> <<>>, district |-> NoneV]

\* the two or three fields f of the position token
position_of(f) ==
    IF Len(f) = 2 THEN [exc |-> "none", party |-> f[1], state |-> f[2],
                        district |-> NoneV]
    ELSE IF Len(f) = 3 THEN [exc |-> "none", party |-> f[1], state |-> f[2],
                             district |-> Val(f[3])]
    ELSE [exc |-> "ValueError", party |-> <<>>, state |-> <<>>, district |-> NoneV]

position_fields(pos_str) == position_of(Split(pos_str, <<"-">>))

\* the record that is returned: p the fields of the position token, n the
\* name part split on ", "
person_of(title, p, n) ==
    IF p.exc # "none" THEN [exc |-> p.exc, v |-> NoPerson]
    ELSE IF Len(n) < 2 THEN [exc |-> "IndexError", v |-> NoPerson]
    ELSE [exc |-> "none",
          v |-> [title |-> title, party |-> p.party, state |-> p.state,
                 district |-> p.district, last_name |-> n[1],
                 full_name |-> n[2] \o <<" ">> \o n[1]]]

\* the part shared by both decoders once the position token is cut out:
\* string is the name part, pos_str the token
decode_person(title, string, pos_str) ==
    person_of(title, position_fields(pos_str), Split(string, <<",", " ">>))

\* string.lstrip(out["title"]).strip()
strip_title(string, title) == Strip(LStripChars(string, CharsOf(title)))

\* string.replace("(Private Legislation)", "").strip(), when the marker is in
without_marker(string) ==
    IF Contains(string, c_PrivateMarker)
    THEN Strip(Replace(string, c_PrivateMarker, <<>>))
    ELSE string

\* " (".join(string.split(" (")[:-1]), cut being string.split(" (")
drop_last(cut) == Join(<<" ", "(">>, SubSeq(cut, 1, Len(cut) - 1))

\* br is string.split(" ["): the name part and the position token
sponsor_of(title, br) ==
    IF Len(br) < 2 THEN [exc |-> "IndexError", v |-> NoPerson]
    ELSE decode_person(title, br[1], Strip(RStripChars(br[2], {"]"})))

cosponsor_of(title, br) ==
    IF Len(br) < 2 THEN [exc |-> "IndexError", v |-> NoPerson]
    ELSE decode_person(title, br[1], Strip(Split(br[2], <<"]">>)[1]))

sponsor_titled(string, title) ==
    sponsor_of(title,
               Split(drop_last(Split(strip_title(without_marker(string), title),
                                     <<" ", "(">>)),
                     <<" ", "[">>))

cosponsor_titled(string, title) ==
    cosponsor_of(title, Split(strip_title(string, title), <<" ", "[">>))

parse_overview_sponsor(string) ==
    IF ~ \E t \in valid_titles : StartsWith(string, t)
    THEN [exc |-> "ValueError", v |-> NoPerson]
    ELSE sponsor_titled(string, CHOOSE t \in valid_titles : StartsWith(string, t))

parse_cosponsor(string) ==
    IF ~ \E t \in valid_titles : StartsWith(string, t)
    THEN [exc |-> "ValueError", v |-> NoPerson]
    ELSE cosponsor_titled(string, CHOOSE t \in valid_titles : StartsWith(string, t))

-----------------------------------------------------------------------------
(* Inputs of the text-run parsers *)

MaxPairs == 2

PhpKeys == {<<"k">>, <<"a", "b">>, <<"c", "2">>}

PhpValues ==
    {<<"v">>, <<"f", "(", "x", ")">>, <<"(", "a">>, <<"A", "r", "r", "a", "y">>,
     <<"a", " ", "b">>, <<>>}

PhpPairLists ==
    {ps \in UNION {[1..n -> PhpKeys \X PhpValues] : n \in 1..MaxPairs} :
        \A i, j \in 1..Len(ps) : i # j => ps[i][1] # ps[j][1]}

\* the serialization convention: one "    [key] => value" line per pair
\* inside the envelope "Array\n(\n" ... ")"
RECURSIVE php_lines(_)
php_lines(ps) ==
    IF ps = <<>> THEN <<>>
    ELSE <<" ", " ", " ", " ", "[">> \o Head(ps)[1] \o <<"]", " ", "=", ">", " ">>
         \o Head(ps)[2] \o <<"\n">> \o php_lines(Tail(ps))

php_serialize(ps) == c_ArrayEnvelope \o php_lines(ps) \o <<")">>

PhpArgs == {[kind |-> "php", s |-> php_serialize(ps), pairs |-> ps] : ps \in PhpPairLists}

\* the dict that holds exactly the pairs of ps
RECURSIVE pairs_dict(_)
pairs_dict(ps) ==
    IF ps = <<>> THEN <<>>
    ELSE (Head(ps)[1] :> Head(ps)[2]) @@ pairs_dict(Tail(ps))

\* identity strings "<Title> <Last>, <First> [<pos>]<tail>"
IdTitles ==
    valid_titles \cup {<<"M", "r", ".">>, <<"R", "e", "p">>, <<"s", "e", "n", ".">>}

IdNames ==
    {<<<<"S", "m", "i", "t", "h">>, <<"J", "o", "h", "n", " ", "A", ".">>>>,
     <<<<"L", "e", "e">>, <<"M", "i", "a">>>>,
     <<<<"R", "o", "m", "e", "r", "o", "-", "B", "a", "r", "c", "e", "l", "o">>,
       <<"C", "a", "r", "l", "o", "s">>>>,
     <<<<"K", "e", "n", "n", "e", "d", "y">>,
       <<"J", "o", "s", "e", "p", "h", " ", "P", ".", ",", " ", "I", "I", "I">>>>}

\* the fields of the position token, joined by "-": none, one, two or three hyphens
IdPositions ==
    {<<<<"I">>>>,
     <<<<"R">>, <<"T", "X">>>>,
     <<<<"D">>, <<"C", "A">>, <<"1", "2">>>>,
     <<<<"D">>, <<"D", "C">>, <<"A", "t", " ", "L", "a", "r", "g", "e">>>>,
     <<<<"D">>, <<"C", "A">>, <<"1">>, <<"2">>>>}

c_Introduced == <<" ", "(", "I", "n", "t", "r", "o", "d", "u", "c", "e", "d", " ",
                  "0", "1", "/", "0", "4", "/", "2", "0", "2", "1", ")">>

\* what follows the position token: the sponsor cell carries the introduction
\* annotation (and, for private bills, the marker); a cosponsor cell carries
\* nothing or the original-cosponsor asterisk
IdTails ==
    {[form |-> "sponsor", s |-> c_Introduced],
     [form |-> "sponsor", s |-> c_Introduced \o <<" ">> \o c_PrivateMarker],
     [form |-> "cosponsor", s |-> <<>>],
     [form |-> "cosponsor", s |-> <<"*">>]}

identity_string(title, name, pos, tail) ==
    title \o <<" ">> \o name[1] \o <<",", " ">> \o name[2] \o <<" ", "[">>
    \o Join(<<"-">>, pos) \o <<"]">> \o tail

IdentityArgs ==
    {[kind |-> "identity", s |-> identity_string(t, n, p, tl.s), title |-> t,
      name |-> n, pos |-> p, form |-> tl.form] :
        t \in IdTitles, n \in IdNames, p \in IdPositions, tl \in IdTails}

NoRet == [exc |-> "none", v |-> <<>>]
NoArg == [kind |-> "none", s |-> <<>>]
-----------------------------------------------------------------------------
(* The bill record *)

BillFields ==
    {"sponsor", "tracker", "reports", "constitutional_authority_statement",
     "cbo_estimates", "policy_area", "titles", "actions", "cosponsors",
     "committees", "related", "subjects", "summaries"}

\* bill_ of parse(): the identity and the source URL, no other key
new_bill(congress, bill_type, i) ==
    [congress |-> congress, type |-> bill_type, number |-> i,
     source |-> <<congress, bill_type, i>>,
     sponsor |-> Absent, tracker |-> Absent, reports |-> Absent,
     constitutional_authority_statement |-> Absent, cbo_estimates |-> Absent,
     policy_area |-> Absent, titles |-> Absent, actions |-> Absent,
     cosponsors |-> Absent, committees |-> Absent, related |-> Absent,
     subjects |-> Absent, summaries |-> Absent]

\* what an extractor hands back: the record as it left it, and the exception
Returned(b) == [bill |-> b, exc |-> "none"]
Raised(b, e) == [bill |-> b, exc |-> e]

-----------------------------------------------------------------------------
(* Elements of the page *)

\* A cell (td, th, li) is the sequence of its child nodes in document order:
\* text, <br>, <span>, <a href>.  s is the node's own text, href the anchor's.
TextNode(s) == [tag |-> "text", s |-> s, href |-> <<>>]
BrNode == [tag |-> "br", s |-> <<>>, href |-> <<>>]
SpanNode(s) == [tag |-> "span", s |-> s, href |-> <<>>]
ANode(s, href) == [tag |-> "a", s |-> s, href |-> href]

\* Tag.text: the text of every descendant, a <br> contributing nothing
RECURSIVE cell_text(_)
cell_text(cell) ==
    IF cell = <<>> THEN <<>> ELSE Head(cell).s \o cell_text(Tail(cell))

\* Tag.find_all(name)
RECURSIVE find_all(_, _)
find_all(cell, name) ==
    IF cell = <<>> THEN <<>>
    ELSE (IF Head(cell).tag = name THEN <<Head(cell)>> ELSE <<>>)
         \o find_all(Tail(cell), name)

\* Tag.find(name): the first one, or None
find(cell, name) ==
    LET all == find_all(cell, name)
    IN  IF all = <<>> THEN NoneV ELSE Val(all[1])

c_Http == <<"h", "t", "t", "p">>
c_CongressGov == <<"h", "t", "t", "p", "s", ":", "/", "/", "w", "w", "w", ".",
                   "c", "o", "n", "g", "r", "e", "s", "s", ".", "g", "o", "v">>

\* link["href"] if link["href"].startswith("http") else base + link["href"]
resolve_href(href) ==
    IF StartsWith(href, c_Http) THEN href ELSE c_CongressGov \o href

\* the "links" / "related_documents" comprehension over the anchors of a cell
cell_links(cell) ==
    LET as == find_all(cell, "a")
    IN  [i \in 1..Len(as) |->
            [text |-> Strip(as[i].s), url |-> resolve_href(as[i].href)]]

\* dict(zip(keys, cells))[k]: the cell of the last position holding key k
\* among the positions both lists have; None stands for KeyError
zip_lookup(keys, cells, k) ==
    LET n == IF Len(keys) < Len(cells) THEN Len(keys) ELSE Len(cells)
        I == {i \in 1..n : keys[i] = k}
    IN  IF I = {} THEN NoneV ELSE Val(cells[CHOOSE i \in I : \A j \in I : j <= i])

-----------------------------------------------------------------------------
(* datetime.strptime for the patterns the extractors use *)

Digits == <<"0", "1", "2", "3", "4", "5", "6", "7", "8", "9">>

IsDigit(c) == \E i \in 1..10 : Digits[i] = c

DigitVal(c) == (CHOOSE i \in 1..10 : Digits[i] = c) - 1

RECURSIVE NumVal(_)
NumVal(s) ==
    IF s = <<>> THEN 0
    ELSE 10 * NumVal(SubSeq(s, 1, Len(s) - 1)) + DigitVal(s[Len(s)])

\* a numeric field of lo..hi digits with a value in the range
IsField(s, lo, hi, min, max) ==
    /\ Len(s) \in lo..hi
    /\ \A i \in 1..Len(s) : IsDigit(s[i])
    /\ NumVal(s) \in min..max

IsLeap(y) == (y % 4 = 0 /\ y % 100 # 0) \/ y % 400 = 0

DaysIn(y, m) ==
    IF m = 2 THEN (IF IsLeap(y) THEN 29 ELSE 28)
    ELSE IF m \in {4, 6, 9, 11} THEN 30 ELSE 31

NoDate == [y |-> 0, m |-> 0, d |-> 0, H |-> 0, M |-> 0]

\* the fields f of "%m/%d/%Y"; None stands for ValueError
date_of(f) ==
    IF /\ Len(f) = 3
       /\ IsField(f[1], 1, 2, 1, 12)
       /\ IsField(f[2], 1, 2, 1, 31)
       /\ IsField(f[3], 4, 4, 1, 9999)
       /\ NumVal(f[2]) <= DaysIn(NumVal(f[3]), NumVal(f[1]))
    THEN Val([y |-> NumVal(f[3]), m |-> NumVal(f[1]), d |-> NumVal(f[2]),
              H |-> 0, M |-> 0])
    ELSE NoneV

\* "%m/%d/%Y"
strptime_date(s) == date_of(Split(s, <<"/">>))

\* day the date, h the hour field, mp the minutes followed by AM or PM
time_of(day, h, mp) ==
    IF /\ day # NoneV
       /\ IsField(h, 1, 2, 1, 12)
       /\ Len(mp) >= 3
       /\ IsField(SubSeq(mp, 1, Len(mp) - 2), 1, 2, 0, 59)
       /\ Lower(SubSeq(mp, Len(mp) - 1, Len(mp))) \in {<<"a", "m">>, <<"p", "m">>}
    THEN Val([day.v EXCEPT
                !.H = (NumVal(h) % 12)
                      + (IF Lower(SubSeq(mp, Len(mp) - 1, Len(mp))) = <<"p", "m">>
                         THEN 12 ELSE 0),
                !.M = NumVal(SubSeq(mp, 1, Len(mp) - 2))])
    ELSE NoneV

\* hm the part after the "-" split on ":"
date_time_of(day, hm) == IF Len(hm) = 2 THEN time_of(day, hm[1], hm[2]) ELSE NoneV

date_time_parts(dt) ==
    IF Len(dt) = 2 THEN date_time_of(strptime_date(dt[1]), Split(dt[2], <<":">>))
    ELSE NoneV

\* "%m/%d/%Y-%I:%M%p"; None stands for ValueError
strptime_date_time(s) == date_time_parts(Split(s, <<"-">>))

\* the dates of the cosponsors table: "%m/%d/%Y" only
parse_date(date_str) == strptime_date(date_str)

\* try the first pattern, on ValueError the second
first_or(first, date_str) == IF first # NoneV THEN first ELSE strptime_date(date_str)

\* _parse_date_time of parse_actions: the second strptime's ValueError leaves
\* the function (None here)
actions_parse_date_time(date_str) == first_or(strptime_date_time(date_str), date_str)

-----------------------------------------------------------------------------
(* Tables: a panel div holding thead > tr > th labels and tbody > tr rows *)

\* [col.text.strip().lower() for col in columns]
col_names(header) == [i \in 1..Len(header) |-> Lower(Strip(header[i]))]

SetOf(seq) == {seq[i] : i \in 1..Len(seq)}

\* [key_upd[col] for col in col_names]
key_list(names, key_upd) == [i \in 1..Len(names) |-> key_upd[names[i]]]

\* the rows of a table handled one by one, appended to a local list: the
\* first row that raises ends the loop and the list is dropped
collect(results) ==
    LET bad == {i \in 1..Len(results) : results[i].exc # "none"}
    IN  IF bad # {}
        THEN [exc |-> results[CHOOSE i \in bad : \A j \in bad : i <= j].exc,
              v |-> <<>>]
        ELSE [exc |-> "none", v |-> [i \in 1..Len(results) |-> results[i].v]]

RowOk(v) == [exc |-> "none", v |-> v]
RowRaised(e) == [exc |-> e, v |-> <<>>]

\* the statements after a lookup: opt None raises e there, otherwise they
\* go on with the value
Need(opt, e, rest(_)) == IF opt = NoneV THEN RowRaised(e) ELSE rest(opt.v)

\* the statements after a call: an exception of the call passes through
Try(r, rest(_)) == IF r.exc # "none" THEN RowRaised(r.exc) ELSE rest(r.v)

\* the same for an extractor, which hands back the record as it stands
TryBill(r, b, rest(_)) == IF r.exc # "none" THEN Raised(b, r.exc) ELSE rest(r.v)

-----------------------------------------------------------------------------
(* parse_actions *)

c_date == <<"d", "a", "t", "e">>
c_chamber == <<"c", "h", "a", "m", "b", "e", "r">>
c_all_actions == <<"a", "l", "l", " ", "a", "c", "t", "i", "o", "n", "s">>
c_ActionBy == <<"A", "c", "t", "i", "o", "n", " ", "B", "y", ":">>

actions_schema3 == {c_date, c_chamber, c_all_actions}
actions_schema2 == {c_date, c_all_actions}

\* key_upd of the three-column schema with the chamber and the action swapped
actions_key_upd3_swapped ==
    (c_date :> "date") @@ (c_chamber :> "action") @@ (c_all_actions :> "by")

actions_key_upd3 ==
    (c_date :> "date") @@ (c_chamber :> "by") @@ (c_all_actions :> "action")
actions_key_upd2 == (c_date :> "date") @@ (c_all_actions :> "action")

\* a row under {date, chamber, all actions}
action_row3(keys, row) ==
    Need(zip_lookup(keys, row.tds, "date"), "KeyError", LAMBDA date :
    Need(actions_parse_date_time(Strip(cell_text(date))), "ValueError", LAMBDA when :
    Need(zip_lookup(keys, row.tds, "by"), "KeyError", LAMBDA by :
    Need(zip_lookup(keys, row.tds, "action"), "KeyError", LAMBDA action :
        RowOk([date |-> when,
               by |-> Val(Strip(cell_text(by))),
               action |-> Strip(cell_text(action)),
               links |-> cell_links(action)])))))

\* by.replace("Action By:", "").strip()
action_by(by) == Strip(Replace(by, c_ActionBy, <<>>))

\* action_without_by leaving the text of the cell as it is
action_with_by(action_text, by) == Strip(action_text)

\* action_text.replace(by, "").strip()
action_without_by(action_text, by) == Strip(Replace(action_text, by, <<>>))

\* by is the stripped text of the span
action_marked(by, action_text) ==
    IF by = <<>> THEN RowOk([by |-> NoneV, action |-> action_text])
    ELSE IF ~StartsWith(by, c_ActionBy) THEN RowRaised("ValueError")
    ELSE RowOk([by |-> Val(action_by(by)),
                action |-> action_without_by(action_text, by)])

\* the actor and the action text: span is the first <span> of the action cell
action_marker(span, action_text) ==
    IF span = NoneV THEN RowOk([by |-> NoneV, action |-> action_text])
    ELSE action_marked(Strip(span.v.s), action_text)

\* a row under {date, all actions}
action_row2(keys, row) ==
    Need(zip_lookup(keys, row.tds, "action"), "KeyError", LAMBDA action :
    Try(action_marker(find(action, "span"), Strip(cell_text(action))), LAMBDA m :
    Need(zip_lookup(keys, row.tds, "date"), "KeyError", LAMBDA date :
    Need(actions_parse_date_time(Strip(cell_text(date))), "ValueError", LAMBDA when :
        RowOk([date |-> when,
               by |-> m.by,
               action |-> m.action,
               links |-> cell_links(action)])))))

actions_rows(rows, names) ==
    IF SetOf(names) = actions_schema3
    THEN collect([i \in 1..Len(rows) |->
                    action_row3(key_list(names, actions_key_upd3), rows[i])])
    ELSE collect([i \in 1..Len(rows) |->
                    action_row2(key_list(names, actions_key_upd2), rows[i])])

\* from x = set(col_names) on
actions_table(b, div, names) ==
    IF SetOf(names) \notin {actions_schema3, actions_schema2}
    THEN Raised(b, "ValueError")
    ELSE IF ~div.tbody THEN Raised(b, "AttributeError")
    ELSE TryBill(actions_rows(div.rows, names), b, LAMBDA actions :
            Returned([b EXCEPT !.actions = Val(actions)]))

parse_actions(b, page) ==
    IF page.actions = NoneV THEN Returned([b EXCEPT !.actions = Val(<<>>)])
    ELSE IF ~page.actions.v.thead THEN Raised(b, "AttributeError")
    ELSE IF page.actions.v.header = NoneV
    THEN Returned([b EXCEPT !.actions = Val(<<>>)])
    ELSE actions_table(b, page.actions.v, col_names(page.actions.v.header.v))

-----------------------------------------------------------------------------
(* parse_consponsors *)

c_cosponsor == <<"c", "o", "s", "p", "o", "n", "s", "o", "r">>
c_date_cosponsored == <<"d", "a", "t", "e", " ", "c", "o", "s", "p", "o", "n", "s",
                        "o", "r", "e", "d">>
c_cosponsors_who_withdrew ==
    <<"c", "o", "s", "p", "o", "n", "s", "o", "r", "s", " ", "w", "h", "o", " ",
      "w", "i", "t", "h", "d", "r", "e", "w">>
c_date_withdrawn == <<"d", "a", "t", "e", " ", "w", "i", "t", "h", "d", "r", "a", "w", "n">>
c_cr_explanation == <<"c", "r", " ", "e", "x", "p", "l", "a", "n", "a", "t", "i", "o", "n">>

cosponsors_schema == {c_cosponsor, c_date_cosponsored}
cosponsors_schema_withdrawn ==
    {c_cosponsors_who_withdrew, c_date_cosponsored, c_date_withdrawn, c_cr_explanation}

cosponsors_key_upd == (c_cosponsor :> "cosponsor") @@ (c_date_cosponsored :> "date")
cosponsors_key_upd_withdrawn ==
    (c_cosponsors_who_withdrew :> "cosponsor") @@ (c_date_cosponsored :> "date")
    @@ (c_date_withdrawn :> "date withdrawn") @@ (c_cr_explanation :> "cr explanation")

NoWithdrawn == [date |-> NoDate, explanation |-> [text |-> <<>>, url |-> <<>>]]

\* the "cosponsor" and "date" items of y, shared by both schemas
cosponsor_row(keys, row) ==
    Need(zip_lookup(keys, row.tds, "cosponsor"), "KeyError", LAMBDA cosponsor :
    Try(parse_cosponsor(Strip(cell_text(cosponsor))), LAMBDA person :
    Need(zip_lookup(keys, row.tds, "date"), "KeyError", LAMBDA date :
    Need(parse_date(Strip(cell_text(date))), "ValueError", LAMBDA when :
        RowOk([cosponsor |-> person, date |-> when, withdrawn |-> NoneV])))))

\* y under the withdrawal schema
cosponsor_row_withdrawn(keys, row) ==
    Try(cosponsor_row(keys, row), LAMBDA y :
    Need(zip_lookup(keys, row.tds, "date withdrawn"), "KeyError", LAMBDA withdrawn :
    Need(parse_date(Strip(cell_text(withdrawn))), "ValueError", LAMBDA gone :
    Need(zip_lookup(keys, row.tds, "cr explanation"), "KeyError", LAMBDA explanation :
    Need(find(explanation, "a"), "TypeError", LAMBDA a :
        RowOk([y EXCEPT !.withdrawn =
                Val([date |-> gone,
                     explanation |-> [text |-> Strip(cell_text(explanation)),
                                      url |-> a.href]])]))))))

\* the loop under {cosponsor, date cosponsored}: consponsors.append(y)
cosponsors_rows(rows, names) ==
    collect([i \in 1..Len(rows) |->
                cosponsor_row(key_list(names, cosponsors_key_upd), rows[i])])

\* the loop under the withdrawal schema: y is built and the statement after
\* it is the bare expression `consponsors`, so the list stays as it was
cosponsors_rows_withdrawn(rows, names) ==
    Try(collect([i \in 1..Len(rows) |->
                    cosponsor_row_withdrawn(
                        key_list(names, cosponsors_key_upd_withdrawn), rows[i])]),
        LAMBDA ys : RowOk(<<>>))

\* from x = set(col_names) on
cosponsors_table(b, div, names) ==
    IF SetOf(names) \notin {cosponsors_schema, cosponsors_schema_withdrawn}
    THEN Raised(b, "ValueError")
    ELSE IF ~div.tbody THEN Raised(b, "AttributeError")
    ELSE TryBill(IF SetOf(names) = cosponsors_schema
                 THEN cosponsors_rows(div.rows, names)
                 ELSE cosponsors_rows_withdrawn(div.rows, names),
                 b, LAMBDA consponsors :
                        Returned([b EXCEPT !.cosponsors = Val(consponsors)]))

\* parse_consponsors without the try around div.find("thead").find("tr")
parse_consponsors_unguarded(b, page) ==
    IF page.cosponsors = NoneV THEN Returned([b EXCEPT !.cosponsors = Val(<<>>)])
    ELSE IF ~page.cosponsors.v.thead THEN Raised(b, "AttributeError")
    ELSE IF page.cosponsors.v.header = NoneV
    THEN Returned([b EXCEPT !.cosponsors = Val(<<>>)])
    ELSE cosponsors_table(b, page.cosponsors.v, col_names(page.cosponsors.v.header.v))

parse_consponsors(b, page) ==
    IF page.cosponsors = NoneV THEN Returned([b EXCEPT !.cosponsors = Val(<<>>)])
    ELSE IF ~page.cosponsors.v.thead \/ page.cosponsors.v.header = NoneV
    THEN Returned([b EXCEPT !.cosponsors = Val(<<>>)])
    ELSE cosponsors_table(b, page.cosponsors.v, col_names(page.cosponsors.v.header.v))

-----------------------------------------------------------------------------
(* parse_committees *)

c_committee_subcommittee ==
    <<"c", "o", "m", "m", "i", "t", "t", "e", "e", " ", "/", " ",
      "s", "u", "b", "c", "o", "m", "m", "i", "t", "t", "e", "e">>
c_activity == <<"a", "c", "t", "i", "v", "i", "t", "y">>
c_related_documents == <<"r", "e", "l", "a", "t", "e", "d", " ", "d", "o", "c", "u", "m",
                         "e", "n", "t", "s">>

committees_schema == {c_committee_subcommittee, c_date, c_activity, c_related_documents}

committees_key_upd ==
    (c_committee_subcommittee :> "name") @@ (c_date :> "date")
    @@ (c_activity :> "activity") @@ (c_related_documents :> "related documents")

\* _parse_date_time with the date pattern only
committees_parse_date(date_str) == strptime_date(date_str)

\* _parse_date_time of parse_committees: None when neither pattern matches
committees_parse_date_time(date_str) == first_or(strptime_date_time(date_str), date_str)

\* next_cur_th holding on to the first header cell met
first_cur_th(cur_th, row) == IF cur_th = NoneV THEN row.th ELSE cur_th

\* if row.find("th"): cur_th = row.find("th")
next_cur_th(cur_th, row) == IF row.th # NoneV THEN row.th ELSE cur_th

\* cur_sub = "subcommittee" in row["class"], for a row with a th
next_cur_sub(cur_sub, row) ==
    IF row.th # NoneV THEN "subcommittee" \in row.class.v ELSE cur_sub

\* committee[k].text and committee[k].find_all: KeyError without the key,
\* AttributeError when the cell is cur_th and cur_th is None
committee_cell(keys, cells, k, rest(_)) ==
    Need(zip_lookup(keys, cells, k), "KeyError", LAMBDA c :
    Need(c, "AttributeError", rest))

\* y of one row, cells being [cur_th] + row.find_all("td")
committee_y(keys, cells, cur_sub) ==
    committee_cell(keys, cells, "name", LAMBDA name :
    committee_cell(keys, cells, "date", LAMBDA date :
    committee_cell(keys, cells, "activity", LAMBDA activity :
    committee_cell(keys, cells, "related documents", LAMBDA docs :
        RowOk([name |-> Strip(cell_text(name)),
               date |-> committees_parse_date_time(Strip(cell_text(date))),
               activity |-> Strip(cell_text(activity)),
               related_documents |-> cell_links(docs),
               is_subcommittee |-> cur_sub])))))

committee_row(keys, row, cur_th, cur_sub) ==
    committee_y(keys, <<cur_th>> \o [i \in 1..Len(row.tds) |-> Val(row.tds[i])], cur_sub)

\* the loop over the body rows, cur_th and cur_sub carried from row to row
RECURSIVE committees_rows(_, _, _, _, _)
committees_rows(rows, keys, cur_th, cur_sub, committees) ==
    IF rows = <<>> THEN RowOk(committees)
    ELSE IF Head(rows).th # NoneV /\ Head(rows).class = NoneV
    THEN RowRaised("KeyError")
    ELSE
    LET th == next_cur_th(cur_th, Head(rows))
        sub == next_cur_sub(cur_sub, Head(rows))
    IN  Try(committee_row(keys, Head(rows), th, sub), LAMBDA y :
            committees_rows(Tail(rows), keys, th, sub, Append(committees, y)))

\* committees_table without the check of the column labels
committees_table_unchecked(b, div, names) ==
    IF ~div.tbody THEN Raised(b, "AttributeError")
    ELSE TryBill(committees_rows(div.rows, <<"name", "date", "activity">>,
                                 NoneV, FALSE, <<>>),
                 b, LAMBDA committees :
                        Returned([b EXCEPT !.committees = Val(committees)]))

\* from x = set(col_names) on
committees_table(b, div, names) ==
    IF SetOf(names) # committees_schema THEN Raised(b, "ValueError")
    ELSE IF ~div.tbody THEN Raised(b, "AttributeError")
    ELSE TryBill(committees_rows(div.rows, key_list(names, committees_key_upd),
                                 NoneV, FALSE, <<>>),
                 b, LAMBDA committees :
                        Returned([b EXCEPT !.committees = Val(committees)]))

parse_committees(b, page) ==
    IF page.committees = NoneV THEN Returned([b EXCEPT !.committees = Val(<<>>)])
    ELSE IF ~page.committees.v.thead \/ page.committees.v.header = NoneV
    THEN Returned([b EXCEPT !.committees = Val(<<>>)])
    ELSE committees_table(b, page.committees.v, col_names(page.committees.v.header.v))

-----------------------------------------------------------------------------
(* parse_related *)

c_bill == <<"b", "i", "l", "l">>
c_latest_title == <<"l", "a", "t", "e", "s", "t", " ", "t", "i", "t", "l", "e">>
c_relationships_to == <<"r", "e", "l", "a", "t", "i", "o", "n", "s", "h", "i", "p", "s",
                        " ", "t", "o">>
c_relationships_identified_by ==
    <<"r", "e", "l", "a", "t", "i", "o", "n", "s", "h", "i", "p", "s", " ",
      "i", "d", "e", "n", "t", "i", "f", "i", "e", "d", " ", "b", "y">>
c_latest_action == <<"l", "a", "t", "e", "s", "t", " ", "a", "c", "t", "i", "o", "n">>
c_Procedurally_related ==
    <<"P", "r", "o", "c", "e", "d", "u", "r", "a", "l", "l", "y", " ",
      "r", "e", "l", "a", "t", "e", "d">>

related_schema ==
    {c_bill, c_latest_title, c_relationships_to, c_relationships_identified_by,
     c_latest_action}

related_key_upd ==
    (c_bill :> "bill") @@ (c_latest_title :> "title")
    @@ (c_relationships_to :> "relationship")
    @@ (c_relationships_identified_by :> "by")
    @@ (c_latest_action :> "latest action")

\* "relationships to" if col.startswith("relationships to") else col
related_names(names) ==
    [i \in 1..Len(names) |->
        IF StartsWith(names[i], c_relationships_to) THEN c_relationships_to
        ELSE names[i]]

related_col_names(header) == related_names(col_names(header))

\* href if "http" in href else "https://www.congress.gov" + href
related_url(href) ==
    IF Contains(href, c_Http) THEN href ELSE c_CongressGov \o href

\* "Procedurally related" if text.startswith("Procedurally related") else text
related_relationship(text) ==
    IF StartsWith(text, c_Procedurally_related) THEN c_Procedurally_related ELSE text

related_row(keys, row) ==
    Need(zip_lookup(keys, row.tds, "bill"), "KeyError", LAMBDA rbill :
    Need(find(rbill, "a"), "TypeError", LAMBDA a :
    Need(zip_lookup(keys, row.tds, "relationship"), "KeyError", LAMBDA relationship :
    Need(zip_lookup(keys, row.tds, "by"), "KeyError", LAMBDA by :
        RowOk([url |-> related_url(a.href),
               relationship |-> related_relationship(Strip(cell_text(relationship))),
               by |-> Strip(cell_text(by))])))))

\* rows of class relatedbill_exrow are skipped; row.get("class", [])
related_kept(rows) ==
    SelectSeq(rows, LAMBDA r : r.class = NoneV \/ "relatedbill_exrow" \notin r.class.v)

related_rows(kept, keys) ==
    collect([i \in 1..Len(kept) |-> related_row(keys, kept[i])])

\* from x = set(col_names) on
related_table(b, div, names) ==
    IF SetOf(names) # related_schema THEN Raised(b, "ValueError")
    ELSE IF ~div.tbody THEN Raised(b, "AttributeError")
    ELSE TryBill(related_rows(related_kept(div.rows), key_list(names, related_key_upd)),
                 b, LAMBDA related : Returned([b EXCEPT !.related = Val(related)]))

parse_related(b, page) ==
    IF page.related = NoneV THEN Returned([b EXCEPT !.related = Val(<<>>)])
    ELSE IF ~page.related.v.thead \/ page.related.v.header = NoneV
    THEN Returned([b EXCEPT !.related = Val(<<>>)])
    ELSE related_table(b, page.related.v, related_col_names(page.related.v.header.v))

-----------------------------------------------------------------------------
(* parse_subjects *)

c_Private_Legislation ==
    <<"P", "r", "i", "v", "a", "t", "e", " ", "L", "e", "g", "i", "s", "l", "a",
      "t", "i", "o", "n">>

\* policy_area_matches letting every entry of the side panel pass
policy_area_unchecked(b, li) == IF b.policy_area = Absent THEN NoneV ELSE Val(TRUE)

\* the condition of the assert: bill["policy_area"] == lis[0].text.strip();
\* None stands for KeyError
policy_area_matches(b, li) ==
    IF b.policy_area = Absent THEN NoneV
    ELSE Val(b.policy_area = Val(Strip(li)))

\* the subjects panel: nav is the list-item texts of the policy-area side
\* panel (div.search-column-nav), main those of div.search-column-main,
\* each None when the div is not there
parse_subjects(b, page) ==
    IF page.subjects = NoneV THEN Returned([b EXCEPT !.subjects = Val(<<>>)])
    ELSE
    LET div == page.subjects.v
    IN  IF div.nav = NoneV THEN Raised(b, "AttributeError")
        ELSE IF Len(div.nav.v) > 1 THEN Raised(b, "ValueError")
        ELSE IF Len(div.nav.v) = 1 /\ policy_area_matches(b, div.nav.v[1]) = NoneV
        THEN Raised(b, "KeyError")
        ELSE IF Len(div.nav.v) = 1 /\ ~policy_area_matches(b, div.nav.v[1]).v
        THEN Raised(b, "AssertionError")
        ELSE IF div.main = NoneV THEN Returned([b EXCEPT !.subjects = Val(<<>>)])
        ELSE
        LET subjects == [i \in 1..Len(div.main.v) |-> Strip(div.main.v[i])]
            b1 == [b EXCEPT !.subjects = Val(subjects)]
        IN  IF subjects = <<>> THEN Returned(b1)
            ELSE IF b.policy_area = Absent THEN Raised(b1, "KeyError")
            ELSE IF b.policy_area = NoneV /\ c_Private_Legislation \in SetOf(subjects)
            THEN Returned([b1 EXCEPT !.policy_area = Val(c_Private_Legislation)])
            ELSE Returned(b1)
-----------------------------------------------------------------------------
(* parse_overview *)

c_sponsor == <<"s", "p", "o", "n", "s", "o", "r">>
c_tracker == <<"t", "r", "a", "c", "k", "e", "r">>
c_committee_reports == <<"c", "o", "m", "m", "i", "t", "t", "e", "e", "_",
                         "r", "e", "p", "o", "r", "t", "s">>
c_committees == <<"c", "o", "m", "m", "i", "t", "t", "e", "e", "s">>
c_latest_action_key == <<"l", "a", "t", "e", "s", "t", "_", "a", "c", "t", "i", "o", "n">>
c_latest_action_modified ==
    <<"l", "a", "t", "e", "s", "t", "_", "a", "c", "t", "i", "o", "n", "_",
      "(", "m", "o", "d", "i", "f", "i", "e", "d", ")">>
c_roll_call_votes == <<"r", "o", "l", "l", "_", "c", "a", "l", "l", "_",
                       "v", "o", "t", "e", "s">>
c_committee_meetings == <<"c", "o", "m", "m", "i", "t", "t", "e", "e", "_",
                          "m", "e", "e", "t", "i", "n", "g", "s">>
c_committee_prints == <<"c", "o", "m", "m", "i", "t", "t", "e", "e", "_",
                        "p", "r", "i", "n", "t", "s">>
c_notes == <<"n", "o", "t", "e", "s">>
c_actionDate == <<"a", "c", "t", "i", "o", "n", "D", "a", "t", "e">>
c_description == <<"d", "e", "s", "c", "r", "i", "p", "t", "i", "o", "n">>
c_displayText == <<"d", "i", "s", "p", "l", "a", "y", "T", "e", "x", "t">>
c_externalActionCode == <<"e", "x", "t", "e", "r", "n", "a", "l", "A", "c", "t", "i",
                          "o", "n", "C", "o", "d", "e">>
c_chamberOfAction == <<"c", "h", "a", "m", "b", "e", "r", "O", "f", "A", "c", "t", "i",
                       "o", "n">>

\* an ignore-list without the latest action keys
overview_ignored_short ==
    {c_committees, c_roll_call_votes, c_committee_meetings, c_committee_prints, c_notes}

overview_ignored ==
    {c_committees, c_latest_action_key, c_latest_action_modified, c_roll_call_votes,
     c_committee_meetings, c_committee_prints, c_notes}

\* k.text.strip().rstrip(":").lower().replace(" ", "_")
overview_key(text) ==
    Replace(Lower(RStripChars(Strip(text), {":"})), <<" ">>, <<"_">>)

\* the fields f of "%Y-%m-%d"; None stands for ValueError
ymd_of(f) ==
    IF /\ Len(f) = 3
       /\ IsField(f[1], 4, 4, 1, 9999)
       /\ IsField(f[2], 1, 2, 1, 12)
       /\ IsField(f[3], 1, 2, 1, 31)
       /\ NumVal(f[3]) <= DaysIn(NumVal(f[1]), NumVal(f[2]))
    THEN Val([y |-> NumVal(f[1]), m |-> NumVal(f[2]), d |-> NumVal(f[3]),
              H |-> 0, M |-> 0])
    ELSE NoneV

strptime_ymd(s) == ymd_of(Split(s, <<"-">>))

\* href.split("/")[-1]
last_segment(path) == path[Len(path)]

\* the sponsor cell: the decoded identity, the profile URL and the id
overview_sponsor(cell) ==
    Try(parse_overview_sponsor(cell_text(cell.nodes)), LAMBDA person :
    Need(find(cell.nodes, "a"), "TypeError", LAMBDA a :
        RowOk([title |-> person.title, party |-> person.party,
               state |-> person.state, district |-> person.district,
               last_name |-> person.last_name,
               full_name |-> person.full_name,
               url |-> c_CongressGov \o a.href,
               bioguide_id |-> last_segment(Split(a.href, <<"/">>))])))

tracker_renamed ==
    {c_actionDate, c_description, c_displayText, c_externalActionCode,
     c_chamberOfAction}

tracker_names ==
    {c_date, <<"t", "y", "p", "e">>, <<"t", "e", "x", "t">>, <<"c", "o", "d", "e">>,
     c_chamber}

\* one step of the tracker: the decoded dump with actionDate parsed and the
\* five keys of update_mapping renamed; other holds the keys left as they were
tracker_step(array_text) ==
    Try(parse_php_array(array_text), LAMBDA d :
        IF c_actionDate \notin DOMAIN d THEN RowRaised("KeyError")
        ELSE Need(strptime_ymd(d[c_actionDate]), "ValueError", LAMBDA date :
             IF ~ (tracker_renamed \subseteq DOMAIN d) THEN RowRaised("KeyError")
             ELSE RowOk([date |-> date,
                         type |-> d[c_description],
                         text |-> d[c_displayText],
                         code |-> d[c_externalActionCode],
                         chamber |-> d[c_chamberOfAction],
                         other |-> [k \in (DOMAIN d \ (tracker_renamed \cup tracker_names))
                                       |-> d[k]]])))

\* the li elements of ol.bill_progress that hold a div.sol-step-info
tracker_steps(lis) == collect([i \in 1..Len(lis) |-> tracker_step(lis[i].v)])

overview_tracker(cell) == tracker_steps(SelectSeq(cell.steps, LAMBDA li : li # NoneV))

\* every anchor of the committee reports cell
report_entries(as) ==
    [i \in 1..Len(as) |-> [url |-> c_CongressGov \o as[i].href, title |-> as[i].s]]

overview_reports(cell) == report_entries(find_all(cell.nodes, "a"))

NoOut == [sponsor |-> Absent, tracker |-> Absent, reports |-> Absent]

\* k, v of a row: two td, or a th and one td; None stands for ValueError
overview_kv(row) ==
    IF row.th = NoneV /\ Len(row.tds) = 2
    THEN Val([k |-> row.tds[1], v |-> row.tds[2]])
    ELSE IF row.th # NoneV /\ Len(row.tds) = 1
    THEN Val([k |-> row.th.v, v |-> row.tds[1]])
    ELSE NoneV

\* the branch taken for key: out after the row
overview_entry(key, v, out) ==
    IF key = c_sponsor
    THEN Try(overview_sponsor(v), LAMBDA sponsor :
            RowOk([out EXCEPT !.sponsor = Val(sponsor)]))
    ELSE IF key \in overview_ignored THEN RowOk(out)
    ELSE IF StartsWith(key, c_tracker)
    THEN Try(overview_tracker(v), LAMBDA steps :
            RowOk([out EXCEPT !.tracker = Val(steps)]))
    ELSE IF key = c_committee_reports
    THEN RowOk([out EXCEPT !.reports = Val(overview_reports(v))])
    ELSE RowRaised("NotImplementedError")

\* the loop over the rows of the overview table, out filled row by row
RECURSIVE overview_rows(_, _)
overview_rows(rows, out) ==
    IF rows = <<>> THEN RowOk(out)
    ELSE Need(overview_kv(Head(rows)), "ValueError", LAMBDA kv :
         Try(overview_entry(overview_key(cell_text(kv.k.nodes)), kv.v, out),
             LAMBDA out1 : overview_rows(Tail(rows), out1)))

\* bill.update(out): the keys out holds overwrite those of the record
bill_update(b, out) ==
    [b EXCEPT !.sponsor = IF out.sponsor = Absent THEN @ ELSE out.sponsor,
              !.tracker = IF out.tracker = Absent THEN @ ELSE out.tracker,
              !.reports = IF out.reports = Absent THEN @ ELSE out.reports]

\* page.wrapper is div.overview_wrapper.bill, holding div.overview > table and
\* div.tertiary, each None when it is not there
parse_overview(b, page) ==
    IF page.wrapper = NoneV THEN Raised(b, "AttributeError")
    ELSE IF page.wrapper.v.overview = NoneV THEN Raised(b, "AttributeError")
    ELSE IF page.wrapper.v.overview.v = NoneV THEN Raised(b, "AttributeError")
    ELSE TryBill(overview_rows(page.wrapper.v.overview.v.v, NoOut), b,
                 LAMBDA out : Returned(bill_update(b, out)))

-----------------------------------------------------------------------------
(* parse_tertiary, parse_authority_statement, parse_cbo_estimates *)

c_More_on_This_Bill == <<"M", "o", "r", "e", " ", "o", "n", " ", "T", "h", "i", "s", " ",
                         "B", "i", "l", "l">>
\* "Subject — Policy Area:", the dash (U+2014) written as one character
c_Subject_Policy_Area ==
    <<"S", "u", "b", "j", "e", "c", "t", " ", "&mdash;", " ", "P", "o", "l", "i", "c", "y",
      " ", "A", "r", "e", "a", ":">>
c_Cost_Estimates_Search_page ==
    <<"C", "o", "s", "t", " ", "E", "s", "t", "i", "m", "a", "t", "e", "s", " ",
      "S", "e", "a", "r", "c", "h", " ", "p", "a", "g", "e">>

\* The fragment between "var msg = '" and "';" of the li's script, parsed: a
\* sequence of nodes [tag, s, href, kids], s the text of a text node or of an
\* anchor, kids the children of any other tag.
Wrappers == {"ls-thn-eq", "bullet"}

\* _f: the rendering of the children of a tag; an h3 ends the loop over the
\* children it is among
RECURSIVE authority_f(_)
authority_f(children) ==
    IF children = <<>> THEN RowOk(<<>>)
    ELSE IF Head(children).tag = "h3" THEN RowOk(<<>>)
    ELSE IF Head(children).tag \in {"text", "a"}
    THEN Try(authority_f(Tail(children)), LAMBDA rest :
            RowOk(Head(children).s \o rest))
    ELSE IF Head(children).tag = "br"
    THEN Try(authority_f(Tail(children)), LAMBDA rest : RowOk(<<"\n">> \o rest))
    ELSE IF Head(children).tag \in Wrappers
    THEN Try(authority_f(Head(children).kids), LAMBDA inner :
         Try(authority_f(Tail(children)), LAMBDA rest : RowOk(inner \o rest)))
    ELSE RowRaised("ValueError")

\* the lines that are kept: not starting with "[", not ending with "]", not empty
authority_lines(text) ==
    Join(<<"\n">>,
         SelectSeq(Split(text, <<"\n">>),
                   LAMBDA l : l # <<>> /\ l[1] # "[" /\ l[Len(l)] # "]"))

\* li.msg is the parsed fragment, None when the li holds no script text
parse_authority_statement(li) ==
    Need(li.msg, "AttributeError", LAMBDA msg :
    Try(authority_f(msg), LAMBDA out : RowOk(authority_lines(Strip(out)))))

\* find_all("a"): every anchor of the fragment, in document order
RECURSIVE fragment_anchors(_)
fragment_anchors(children) ==
    IF children = <<>> THEN <<>>
    ELSE (IF Head(children).tag = "a" THEN <<Head(children)>>
          ELSE fragment_anchors(Head(children).kids))
         \o fragment_anchors(Tail(children))

\* the anchors that are kept, as {url, title}
cbo_entries(as) == [i \in 1..Len(as) |-> [url |-> as[i].href, title |-> as[i].s]]

parse_cbo_estimates(li) ==
    Need(li.msg, "AttributeError", LAMBDA msg :
        RowOk(cbo_entries(SelectSeq(fragment_anchors(msg),
                LAMBDA a : ~Contains(a.s, c_Cost_Estimates_Search_page)))))

\* the statements after a step that mutates the record: an exception leaves
\* the record as the step left it
ThenBill(r, rest(_)) == IF r.exc # "none" THEN r ELSE rest(r.bill)

\* one li of a "More on This Bill" section, by the id of its anchor; ""
\* stands for an li without an anchor, "-" for an anchor without id
tertiary_li(li, b) ==
    IF li.a_id = "" THEN Raised(b, "TypeError")
    ELSE IF li.a_id = "-" THEN Raised(b, "KeyError")
    ELSE IF li.a_id = "constAuthButton"
    THEN TryBill(parse_authority_statement(li), b, LAMBDA statement :
            Returned([b EXCEPT !.constitutional_authority_statement = Val(statement)]))
    ELSE IF li.a_id = "cboEstimateButton"
    THEN TryBill(parse_cbo_estimates(li), b, LAMBDA estimates :
            Returned([b EXCEPT !.cbo_estimates = Val(estimates)]))
    ELSE IF li.a_id = "supportingMembersBtn" THEN Returned(b)
    ELSE Raised(b, "NotImplementedError")

RECURSIVE tertiary_lis(_, _)
tertiary_lis(lis, b) ==
    IF lis = <<>> THEN Returned(b)
    ELSE ThenBill(tertiary_li(Head(lis), b), LAMBDA b1 : tertiary_lis(Tail(lis), b1))

\* one div.tertiary_section whose h3 text, stripped, is head
tertiary_section(head, div, b) ==
    IF head = c_More_on_This_Bill THEN tertiary_lis(div.lis, b)
    ELSE IF head = c_Subject_Policy_Area
    THEN IF div.lis = <<>> THEN Raised(b, "IndexError")
         ELSE Returned([b EXCEPT !.policy_area = Val(Strip(div.lis[1].text))])
    ELSE Returned(b)

\* the loop over the div.tertiary_section elements; a section without h3 is
\* passed over
RECURSIVE tertiary_sections(_, _)
tertiary_sections(divs, b) ==
    IF divs = <<>> THEN Returned(b)
    ELSE IF Head(divs).h3 = NoneV THEN tertiary_sections(Tail(divs), b)
    ELSE ThenBill(tertiary_section(Strip(Head(divs).h3.v), Head(divs), b),
                  LAMBDA b1 : tertiary_sections(Tail(divs), b1))

\* a reset that takes the titles with it
tertiary_reset_titles(b) ==
    [b EXCEPT !.constitutional_authority_statement = NoneV,
              !.cbo_estimates = NoneV,
              !.policy_area = NoneV,
              !.titles = NoneV]

\* the three keys are set to None before the sections are looked for
tertiary_reset(b) ==
    [b EXCEPT !.constitutional_authority_statement = NoneV,
              !.cbo_estimates = NoneV,
              !.policy_area = NoneV]

parse_tertiary(b, page) ==
    IF page.wrapper = NoneV THEN Raised(b, "AttributeError")
    ELSE IF page.wrapper.v.tertiary = NoneV
    THEN Raised(tertiary_reset(b), "AttributeError")
    ELSE tertiary_sections(page.wrapper.v.tertiary.v, tertiary_reset(b))

-----------------------------------------------------------------------------
(* parse_summaries *)

c_summary_ == <<"s", "u", "m", "m", "a", "r", "y", "-">>
c_Shown_Here == <<"S", "h", "o", "w", "n", " ", "H", "e", "r", "e", ":">>

\* h3.text.strip().replace("Shown Here:", "").strip().split("(")[0].strip()
summary_title(text) ==
    Strip(Split(Strip(Replace(Strip(text), c_Shown_Here, <<>>)), <<"(">>)[1])

\* the child divs of the panel: id None when the div has no id, h3 None when
\* it has no heading, ps the texts of its paragraphs
RECURSIVE summaries_divs(_, _)
summaries_divs(divs, summaries) ==
    IF divs = <<>> THEN RowOk(summaries)
    ELSE IF Head(divs).id = NoneV THEN RowRaised("AttributeError")
    ELSE IF ~StartsWith(Head(divs).id.v, c_summary_)
    THEN summaries_divs(Tail(divs), summaries)
    ELSE IF Head(divs).h3 = NoneV THEN RowRaised("AttributeError")
    ELSE summaries_divs(Tail(divs),
            Append(summaries, [title |-> summary_title(Head(divs).h3.v),
                               text |-> Join(<<"\n">>, Head(divs).ps)]))

parse_summaries(b, page) ==
    IF page.summaries = NoneV THEN Returned([b EXCEPT !.summaries = Val(<<>>)])
    ELSE TryBill(summaries_divs(page.summaries.v, <<>>), b, LAMBDA summaries :
            Returned([b EXCEPT !.summaries = Val(summaries)]))

-----------------------------------------------------------------------------
(* parse_titles *)

c_Official == <<"O", "f", "f", "i", "c", "i", "a", "l">>

titles_expected == <<"shortTitles", "titles-row", "officialTitles">>

\* h.text.split("as")[-1].split("for")[0].strip()
title_label(text) ==
    LET tail == Split(text, <<"a", "s">>)
    IN  Strip(Split(tail[Len(tail)], <<"f", "o", "r">>)[1])

title_entry(scope, chamber, heading, txt) ==
    [scope |-> scope,
     type |-> IF Contains(heading.text, c_Official) THEN "official" ELSE "short",
     chamber |-> chamber,
     title |-> txt,
     label |-> title_label(heading.text)]

\* the orders in which `for txt in txts` may visit the set txts: the order of
\* a set of str is that of the hashes, which differ from run to run
Orders(S) ==
    {p \in [1..Cardinality(S) -> S] : \A i, j \in 1..Cardinality(S) : p[i] = p[j] => i = j}

\* what one h4 appends: the neighbor is None (AttributeError), a <p> whose
\* stripped strings are collected into a set, or another tag (nothing)
h4_outcomes(chamber, h4) ==
    IF h4.neighbor = NoneV THEN {RowRaised("AttributeError")}
    ELSE IF h4.neighbor.v.name # "p" THEN {RowOk(<<>>)}
    ELSE {RowOk([i \in 1..Len(p) |-> title_entry("full", chamber, h4, p[i])]) :
            p \in Orders(SetOf(h4.neighbor.v.strings))}

\* what one h5 appends: one entry per li of the <ul> that follows it
h5_outcome(chamber, h5) ==
    IF h5.neighbor = NoneV THEN RowRaised("AttributeError")
    ELSE IF h5.neighbor.v.name # "ul" THEN RowOk(<<>>)
    ELSE RowOk([i \in 1..Len(h5.neighbor.v.strings) |->
                    title_entry("partial", chamber, h5, h5.neighbor.v.strings[i])])

\* the headings in the order the loops visit them: per block, the house
\* column then the senate column, the h4 of a column then its h5
column_headings(chamber, col) ==
    IF col = NoneV THEN <<>>
    ELSE [i \in 1..Len(col.v.h4s) |-> [h |-> "h4", chamber |-> chamber, e |-> col.v.h4s[i]]]
         \o [i \in 1..Len(col.v.h5s) |-> [h |-> "h5", chamber |-> chamber, e |-> col.v.h5s[i]]]

RECURSIVE titles_headings(_)
titles_headings(all_titles) ==
    IF all_titles = <<>> THEN <<>>
    ELSE column_headings("house", Head(all_titles).house)
         \o column_headings("senate", Head(all_titles).senate)
         \o titles_headings(Tail(all_titles))

\* every list the loops may build, or the exception that ends them
RECURSIVE titles_outcomes(_, _)
titles_outcomes(headings, titles) ==
    IF headings = <<>> THEN {RowOk(titles)}
    ELSE
    LET x == Head(headings)
        now == IF x.h = "h4" THEN h4_outcomes(x.chamber, x.e)
               ELSE {h5_outcome(x.chamber, x.e)}
    IN  UNION {IF r.exc # "none" THEN {RowRaised(r.exc)}
               ELSE titles_outcomes(Tail(headings), titles \o r.v) : r \in now}

\* page.titles is div#titles-content holding div#titles_main (each None when
\* absent) and its child divs
parse_titles_outcomes(b, page) ==
    IF page.titles = NoneV THEN {Raised(b, "AttributeError")}
    ELSE IF page.titles.v = NoneV THEN {Raised(b, "AttributeError")}
    ELSE
    LET child_divs == page.titles.v.v
    IN  IF Len(child_divs) \notin {1, 3} THEN {Raised(b, "ValueError")}
        ELSE IF Len(child_divs) = 3 /\ \E i \in 1..3 : child_divs[i].class = NoneV
        THEN {Raised(b, "KeyError")}
        ELSE IF Len(child_divs) = 3
                /\ \E i \in 1..3 : child_divs[i].class.v[1] # titles_expected[i]
        THEN {Raised(b, "AssertionError")}
        ELSE
        LET all_titles == IF Len(child_divs) = 3 THEN Tail(child_divs) ELSE child_divs
        IN  {IF r.exc # "none" THEN Raised(b, r.exc)
             ELSE Returned([b EXCEPT !.titles = Val(r.v)]) :
                r \in titles_outcomes(titles_headings(all_titles), <<>>)}
-----------------------------------------------------------------------------
(* The pages the extractors are run on *)

MaxRows == 2
MaxCommitteeRows == 3

SeqsUpTo(S, n) == UNION {[1..k -> S] : k \in 0..n}

Cell(text) == <<TextNode(text)>>
Table(thead, header, tbody, rows) ==
    [thead |-> thead, header |-> header, tbody |-> tbody, rows |-> rows]
Row(class, th, tds) == [class |-> class, th |-> th, tds |-> tds]

\* the cells of a body row in the column order of the header: cells maps a
\* normalized label to the cell of that column
cells_in_order(names, cells) ==
    [i \in 1..Len(names) |->
        IF names[i] \in DOMAIN cells THEN cells[names[i]] ELSE Cell(<<"-">>)]

\* the table of a panel for each header and each list of body rows, and the
\* panel without thead, without header row, without tbody
Panels(headers, rowlists, names(_), tds(_, _)) ==
    {NoneV, Val(Table(FALSE, NoneV, TRUE, <<>>)), Val(Table(TRUE, NoneV, TRUE, <<>>))}
    \cup {Val(Table(TRUE, Val(h), FALSE, <<>>)) : h \in headers}
    \cup {Val(Table(TRUE, Val(h), TRUE,
                    [i \in 1..Len(rs) |-> Row(rs[i].class, rs[i].th,
                                              tds(names(h), rs[i].cells))])) :
            h \in headers, rs \in rowlists}

in_d1 == <<"0", "1", "/", "0", "4", "/", "2", "0", "2", "1">>
in_d2 == <<"0", "1", "/", "0", "5", "/", "2", "0", "2", "1", "-", "2", ":", "3", "0", "p", "m">>
in_d3 == <<"0", "2", "/", "0", "1", "/", "2", "0", "2", "1">>
in_hrefRel == <<"/", "c", "o", "m", "m", "i", "t", "t", "e", "e", "/", "h", "s", "w", "m", "0", "0">>
in_hrefAbs == <<"h", "t", "t", "p", "s", ":", "/", "/", "w", "w", "w", ".", "g", "o", "v", "i", "n", "f", "o", ".", "g", "o", "v", "/", "c", "r", "/", "H", "1">>
in_hrefMember == <<"/", "m", "e", "m", "b", "e", "r", "/", "m", "i", "a", "-", "l", "e", "e", "/", "L", "0", "0", "0", "0", "0", "1">>
in_hrefMemberAbs == <<"h", "t", "t", "p", "s", ":", "/", "/", "w", "w", "w", ".", "c", "o", "n", "g", "r", "e", "s", "s", ".", "g", "o", "v", "/", "m", "e", "m", "b", "e", "r", "/", "m", "i", "a", "-", "l", "e", "e", "/", "L", "0", "0", "0", "0", "0", "1">>
in_hrefReport == <<"/", "c", "o", "n", "g", "r", "e", "s", "s", "i", "o", "n", "a", "l", "-", "r", "e", "p", "o", "r", "t", "/", "1", "1", "7", "/", "h", "o", "u", "s", "e", "-", "r", "e", "p", "o", "r", "t", "/", "1">>
in_hrefBill == <<"/", "b", "i", "l", "l", "/", "1", "1", "7", "t", "h", "-", "c", "o", "n", "g", "r", "e", "s", "s", "/", "s", "e", "n", "a", "t", "e", "-", "b", "i", "l", "l", "/", "1">>
in_hrefBillAbs == <<"h", "t", "t", "p", "s", ":", "/", "/", "w", "w", "w", ".", "c", "o", "n", "g", "r", "e", "s", "s", ".", "g", "o", "v", "/", "b", "i", "l", "l", "/", "1", "1", "7", "t", "h", "-", "c", "o", "n", "g", "r", "e", "s", "s", "/", "s", "e", "n", "a", "t", "e", "-", "b", "i", "l", "l", "/", "1">>
in_hrefHttpInside == <<"/", "s", "e", "a", "r", "c", "h", "?", "q", "=", "h", "t", "t", "p">>

\* actions
ActionsHeaders ==
    {<<<<"D", "a", "t", "e">>, <<"C", "h", "a", "m", "b", "e", "r">>, <<" ", "A", "l", "l", " ", "A", "c", "t", "i", "o", "n", "s", " ">>>>,
     <<<<"A", "l", "l", " ", "A", "c", "t", "i", "o", "n", "s">>, <<"D", "a", "t", "e">>, <<"C", "h", "a", "m", "b", "e", "r">>>>,
     <<<<"D", "a", "t", "e">>, <<"A", "l", "l", " ", "A", "c", "t", "i", "o", "n", "s">>>>,
     <<<<"a", "l", "l", " ", "a", "c", "t", "i", "o", "n", "s">>, <<"D", "a", "t", "e">>>>,
     <<<<"D", "a", "t", "e">>, <<"A", "c", "t", "i", "o", "n", "s">>>>,
     <<<<"D", "a", "t", "e">>>>}

ActionCells ==
    <<  <<TextNode(<<"P", "a", "s", "s", "e", "d", " ", "H", "o", "u", "s", "e", ".", " ">>)>>,
        <<TextNode(<<"P", "a", "s", "s", "e", "d", " ", "H", "o", "u", "s", "e", ".", "\n">>), BrNode, SpanNode(<<"A", "c", "t", "i", "o", "n", " ", "B", "y", ":", " ", "H", "o", "u", "s", "e">>)>>,
        <<TextNode(<<"R", "e", "f", "e", "r", "r", "e", "d", " ", "t", "o", " ">>), ANode(<<"W", "a", "y", "s", " ", "a", "n", "d", " ", "M", "e", "a", "n", "s">>, in_hrefRel),
          TextNode(<<".", "\n">>), BrNode, SpanNode(<<" ", "A", "c", "t", "i", "o", "n", " ", "B", "y", ":", " ", "S", "e", "n", "a", "t", "e", " ">>),
          TextNode(<<" ", "(", "t", "e", "x", "t", ":", " ">>), ANode(<<" ", "C", "R", " ", "H", "1", " ">>, in_hrefAbs), TextNode(<<")">>)>>,
        <<TextNode(<<"P", "a", "s", "s", "e", "d", " ", "H", "o", "u", "s", "e", ".">>), SpanNode(<<" ">>)>>,
        <<TextNode(<<"P", "a", "s", "s", "e", "d", " ", "H", "o", "u", "s", "e", ".">>), BrNode, SpanNode(<<"B", "y", ":", " ", "H", "o", "u", "s", "e">>)>> >>

ActionRow(date, action) ==
    [class |-> NoneV, th |-> NoneV,
     cells |-> (c_date :> Cell(date)) @@ (c_chamber :> Cell(<<" ", "H", "o", "u", "s", "e", " ">>))
               @@ (c_all_actions :> action)]

ActionRows ==
    {ActionRow(in_d1, ActionCells[1]), ActionRow(in_d2, ActionCells[2]),
     ActionRow(in_d1, ActionCells[3]), ActionRow(in_d3, ActionCells[4]),
     ActionRow(in_d1, ActionCells[5]), ActionRow(<<"n", "/", "a">>, ActionCells[2])}

ActionsPanels ==
    Panels(ActionsHeaders, SeqsUpTo(ActionRows, MaxRows), col_names, cells_in_order)

\* cosponsors
CosponsorsHeaders ==
    {<<<<"C", "o", "s", "p", "o", "n", "s", "o", "r">>, <<"D", "a", "t", "e", " ", "C", "o", "s", "p", "o", "n", "s", "o", "r", "e", "d">>>>,
     <<<<"D", "a", "t", "e", " ", "C", "o", "s", "p", "o", "n", "s", "o", "r", "e", "d">>, <<"C", "o", "s", "p", "o", "n", "s", "o", "r">>>>,
     <<<<"C", "o", "s", "p", "o", "n", "s", "o", "r", "s", " ", "W", "h", "o", " ", "W", "i", "t", "h", "d", "r", "e", "w">>, <<"D", "a", "t", "e", " ", "C", "o", "s", "p", "o", "n", "s", "o", "r", "e", "d">>, <<"D", "a", "t", "e", " ", "W", "i", "t", "h", "d", "r", "a", "w", "n">>,
       <<"C", "R", " ", "E", "x", "p", "l", "a", "n", "a", "t", "i", "o", "n">>>>,
     <<<<"C", "o", "s", "p", "o", "n", "s", "o", "r">>, <<"P", "a", "r", "t", "y">>>>}

CosponsorRow(who, date, withdrawn, explanation) ==
    [class |-> NoneV, th |-> NoneV,
     cells |-> (c_cosponsor :> who) @@ (c_cosponsors_who_withdrew :> who)
               @@ (c_date_cosponsored :> Cell(date))
               @@ (c_date_withdrawn :> Cell(withdrawn))
               @@ (c_cr_explanation :> explanation)]

CosponsorRows ==
    {CosponsorRow(<<ANode(<<"R", "e", "p", ".", " ", "L", "e", "e", ",", " ", "M", "i", "a", " ", "[", "D", "-", "C", "A", "-", "1", "2", "]">>, in_hrefMember), TextNode(<<"*">>)>>,
                  in_d1, in_d3, <<ANode(<<"C", "R", " ", "H", "2">>, in_hrefAbs)>>),
     CosponsorRow(<<TextNode(<<" ">>), ANode(<<"S", "e", "n", ".", " ", "S", "m", "i", "t", "h", ",", " ", "J", "o", "h", "n", " ", "A", ".", " ", "[", "R", "-", "T", "X", "]">>, in_hrefMember)>>,
                  in_d3, in_d3, <<ANode(<<"C", "R", " ", "S", "9">>, in_hrefRel)>>),
     CosponsorRow(<<ANode(<<"M", "r", ".", " ", "L", "e", "e", ",", " ", "M", "i", "a", " ", "[", "D", "-", "C", "A", "-", "1", "2", "]">>, in_hrefMember)>>,
                  in_d1, in_d3, <<ANode(<<"C", "R", " ", "H", "2">>, in_hrefAbs)>>),
     CosponsorRow(<<ANode(<<"R", "e", "p", ".", " ", "L", "e", "e", ",", " ", "M", "i", "a", " ", "[", "D", "-", "C", "A", "-", "1", "2", "]">>, in_hrefMember)>>,
                  <<"n", "/", "a">>, in_d3, <<TextNode(<<"C", "R", " ", "H", "2">>)>>)}

CosponsorsPanels ==
    Panels(CosponsorsHeaders, SeqsUpTo(CosponsorRows, MaxRows), col_names,
           cells_in_order)

\* committees: the th of a row is the cell of the first column
CommitteesHeaders ==
    {<<<<"C", "o", "m", "m", "i", "t", "t", "e", "e", " ", "/", " ", "S", "u", "b", "c", "o", "m", "m", "i", "t", "t", "e", "e">>, <<"D", "a", "t", "e">>, <<"A", "c", "t", "i", "v", "i", "t", "y">>, <<"R", "e", "l", "a", "t", "e", "d", " ", "D", "o", "c", "u", "m", "e", "n", "t", "s">>>>,
     <<<<"C", "o", "m", "m", "i", "t", "t", "e", "e", " ", "/", " ", "S", "u", "b", "c", "o", "m", "m", "i", "t", "t", "e", "e">>, <<"A", "c", "t", "i", "v", "i", "t", "y">>, <<"D", "a", "t", "e">>, <<"R", "e", "l", "a", "t", "e", "d", " ", "D", "o", "c", "u", "m", "e", "n", "t", "s">>>>,
     <<<<"C", "o", "m", "m", "i", "t", "t", "e", "e", " ", "/", " ", "S", "u", "b", "c", "o", "m", "m", "i", "t", "t", "e", "e">>, <<"D", "a", "t", "e">>, <<"A", "c", "t", "i", "v", "i", "t", "y">>>>}

CommitteeRow(class, th, date, activity, docs) ==
    [class |-> class, th |-> th,
     cells |-> (c_date :> Cell(date)) @@ (c_activity :> Cell(activity))
               @@ (c_related_documents :> docs)]

CommitteeRows ==
    {CommitteeRow(Val({"committee"}), Val(Cell(<<"H", "o", "u", "s", "e", " ", "J", "u", "d", "i", "c", "i", "a", "r", "y">>)), in_d1,
                  <<"R", "e", "f", "e", "r", "r", "e", "d", " ", "t", "o">>, <<>>),
     CommitteeRow(Val({"subcommittee"}), Val(Cell(<<" ", "S", "u", "b", "c", "o", "m", "m", "i", "t", "t", "e", "e", " ", "o", "n", " ", "C", "r", "i", "m", "e", " ">>)), in_d2,
                  <<"M", "a", "r", "k", "u", "p", " ", "b", "y">>, <<ANode(<<"H", ".", " ", "R", "e", "p", "t", ".", " ", "1", "1", "7", "-", "1">>, in_hrefReport)>>),
     CommitteeRow(NoneV, NoneV, in_d3, <<"R", "e", "p", "o", "r", "t", "e", "d", " ", "b", "y">>,
                  <<ANode(<<"H", ".", " ", "R", "e", "p", "t", ".", " ", "1", "1", "7", "-", "2">>, in_hrefAbs)>>),
     CommitteeRow(Val({"committee"}), NoneV, <<"n", "/", "a">>, <<"D", "i", "s", "c", "h", "a", "r", "g", "e", "d", " ", "f", "r", "o", "m">>, <<>>),
     CommitteeRow(NoneV, Val(Cell(<<"H", "o", "u", "s", "e", " ", "R", "u", "l", "e", "s">>)), in_d1, <<"R", "e", "f", "e", "r", "r", "e", "d", " ", "t", "o">>, <<>>)}

committee_tds(names, cells) ==
    cells_in_order(SelectSeq(names, LAMBDA n : n # c_committee_subcommittee), cells)

CommitteesPanels ==
    Panels(CommitteesHeaders, SeqsUpTo(CommitteeRows, MaxCommitteeRows), col_names,
           committee_tds)

\* related bills
RelatedHeaders ==
    {<<<<"B", "i", "l", "l">>, <<"L", "a", "t", "e", "s", "t", " ", "T", "i", "t", "l", "e">>, <<"R", "e", "l", "a", "t", "i", "o", "n", "s", "h", "i", "p", "s", " ", "t", "o", " ", "H", ".", "R", ".", "1">>,
       <<"R", "e", "l", "a", "t", "i", "o", "n", "s", "h", "i", "p", "s", " ", "I", "d", "e", "n", "t", "i", "f", "i", "e", "d", " ", "b", "y">>, <<"L", "a", "t", "e", "s", "t", " ", "A", "c", "t", "i", "o", "n">>>>,
     <<<<"B", "i", "l", "l">>, <<"L", "a", "t", "e", "s", "t", " ", "T", "i", "t", "l", "e">>, <<"R", "e", "l", "a", "t", "i", "o", "n", "s", "h", "i", "p", "s", " ", "I", "d", "e", "n", "t", "i", "f", "i", "e", "d", " ", "b", "y">>, <<"L", "a", "t", "e", "s", "t", " ", "A", "c", "t", "i", "o", "n">>>>}

RelatedRow(class, rbill, relationship, by) ==
    [class |-> class, th |-> NoneV,
     cells |-> (c_bill :> rbill) @@ (c_latest_title :> Cell(<<"A", " ", "b", "i", "l", "l">>))
               @@ (c_relationships_to :> Cell(relationship))
               @@ (c_relationships_identified_by :> Cell(by))
               @@ (c_latest_action :> Cell(<<"R", "e", "f", "e", "r", "r", "e", "d">>))]

RelatedRows ==
    {RelatedRow(NoneV, <<ANode(<<"S", ".", "1">>, in_hrefBill)>>, <<"I", "d", "e", "n", "t", "i", "c", "a", "l", " ", "b", "i", "l", "l">>, <<"C", "R", "S">>),
     RelatedRow(Val({"odd"}), <<ANode(<<"S", ".", "1">>, in_hrefBillAbs)>>,
                <<"P", "r", "o", "c", "e", "d", "u", "r", "a", "l", "l", "y", " ", "r", "e", "l", "a", "t", "e", "d", " ", "(", "s", "e", "e", " ", "H", ".", "R", "e", "s", ".", "5", ")">>, <<" ", "H", "o", "u", "s", "e", " ">>),
     RelatedRow(Val({"relatedbill_exrow"}), <<TextNode(<<"m", "o", "r", "e">>)>>, <<>>, <<>>),
     RelatedRow(NoneV, <<ANode(<<"S", ".", "2">>, in_hrefHttpInside)>>, <<"R", "e", "l", "a", "t", "e", "d", " ", "b", "i", "l", "l">>, <<"C", "R", "S">>),
     RelatedRow(NoneV, <<TextNode(<<"S", ".", "3">>)>>, <<"R", "e", "l", "a", "t", "e", "d", " ", "b", "i", "l", "l">>, <<"C", "R", "S">>)}

RelatedPanels ==
    Panels(RelatedHeaders, SeqsUpTo(RelatedRows, MaxRows), related_col_names,
           cells_in_order)

\* subjects
SubjectsPanels ==
    {NoneV}
    \cup {Val([nav |-> nav, main |-> main]) :
            nav \in {NoneV, Val(<<>>), Val(<<<<" ", "H", "e", "a", "l", "t", "h", " ">>>>),
                     Val(<<c_Private_Legislation>>), Val(<<<<"H", "e", "a", "l", "t", "h">>, <<"T", "a", "x", "a", "t", "i", "o", "n">>>>)},
            main \in {NoneV, Val(<<>>), Val(<<<<" ", "M", "e", "d", "i", "c", "a", "r", "e", " ">>>>),
                      Val(<<c_Private_Legislation>>),
                      Val(<<<<"M", "e", "d", "i", "c", "a", "r", "e">>, <<" ", "P", "r", "i", "v", "a", "t", "e", " ", "L", "e", "g", "i", "s", "l", "a", "t", "i", "o", "n", " ">>>>)}}

PolicyAreas == {NoneV, Val(<<"H", "e", "a", "l", "t", "h">>), Val(c_Private_Legislation)}

\* overview: a cell of the table is its child nodes and, for the tracker
\* cell, the text of div.sol-step-info of each li (None when the li has none)
OCell(nodes) == [nodes |-> nodes, steps |-> <<>>]
ORow(th, tds) == [th |-> th, tds |-> tds]

in_step1 ==
    php_serialize(<< <<c_actionDate, <<"2", "0", "2", "1", "-", "0", "1", "-", "0", "4">>>>, <<c_displayText, <<"I", "n", "t", "r", "o", "d", "u", "c", "e", "d">>>>,
                     <<c_externalActionCode, <<"1", "0", "0", "0">>>>, <<c_description, <<"I", "n", "t", "r", "o", "d", "u", "c", "e", "d">>>>,
                     <<c_chamberOfAction, <<"H", "o", "u", "s", "e">>>> >>)
in_step2 ==
    php_serialize(<< <<c_actionDate, <<"2", "0", "2", "1", "-", "0", "2", "-", "3", "0">>>>, <<c_displayText, <<"P", "a", "s", "s", "e", "d", " ", "H", "o", "u", "s", "e">>>>,
                     <<c_externalActionCode, <<"8", "0", "0", "0">>>>, <<c_description, <<"P", "a", "s", "s", "e", "d", " ", "H", "o", "u", "s", "e">>>>,
                     <<c_chamberOfAction, <<"H", "o", "u", "s", "e">>>> >>)

SponsorCell(who, href) ==
    OCell(<<ANode(who, href), TextNode(<<" ", "(", "I", "n", "t", "r", "o", "d", "u", "c", "e", "d", " ", "0", "1", "/", "0", "4", "/", "2", "0", "2", "1", ")">>)>>)

OverviewRows ==
    {ORow(Val(OCell(Cell(<<"S", "p", "o", "n", "s", "o", "r", ":">>))), <<SponsorCell(<<"R", "e", "p", ".", " ", "L", "e", "e", ",", " ", "M", "i", "a", " ", "[", "D", "-", "C", "A", "-", "1", "2", "]">>, in_hrefMember)>>),
     ORow(NoneV, <<OCell(Cell(<<" ", "S", "p", "o", "n", "s", "o", "r", ":", " ">>)),
                   SponsorCell(<<"S", "e", "n", ".", " ", "S", "m", "i", "t", "h", ",", " ", "J", "o", "h", "n", " ", "A", ".", " ", "[", "R", "-", "T", "X", "]">>, in_hrefMemberAbs)>>),
     ORow(Val(OCell(Cell(<<"S", "p", "o", "n", "s", "o", "r", ":">>))), <<SponsorCell(<<"M", "r", ".", " ", "L", "e", "e", ",", " ", "M", "i", "a", " ", "[", "D", "-", "C", "A", "-", "1", "2", "]">>, in_hrefMember)>>),
     ORow(Val(OCell(Cell(<<"C", "o", "m", "m", "i", "t", "t", "e", "e", "s", ":">>))), <<OCell(Cell(<<"H", "o", "u", "s", "e", " ", "-", " ", "J", "u", "d", "i", "c", "i", "a", "r", "y">>))>>),
     ORow(Val(OCell(Cell(<<"L", "a", "t", "e", "s", "t", " ", "A", "c", "t", "i", "o", "n", ":">>))), <<OCell(Cell(<<"H", "o", "u", "s", "e", " ", "-", " ", "0", "1", "/", "0", "4", "/", "2", "0", "2", "1", " ", "R", "e", "f", "e", "r", "r", "e", "d">>))>>),
     ORow(Val(OCell(Cell(<<"T", "r", "a", "c", "k", "e", "r", ":", " ", "T", "h", "i", "s", " ", "b", "i", "l", "l", " ", "h", "a", "s", " ", "t", "h", "e", " ", "s", "t", "a", "t", "u", "s", " ", "I", "n", "t", "r", "o", "d", "u", "c", "e", "d">>))),
          <<[nodes |-> <<>>, steps |-> <<Val(in_step1), NoneV>>]>>),
     ORow(Val(OCell(Cell(<<"T", "r", "a", "c", "k", "e", "r", ":">>))),
          <<[nodes |-> <<>>, steps |-> <<Val(in_step1), Val(in_step2)>>]>>),
     ORow(Val(OCell(Cell(<<"C", "o", "m", "m", "i", "t", "t", "e", "e", " ", "R", "e", "p", "o", "r", "t", "s", ":">>))),
          <<OCell(<<ANode(<<"H", ".", " ", "R", "e", "p", "t", ".", " ", "1", "1", "7", "-", "1">>, in_hrefReport), TextNode(<<";", " ">>),
                    ANode(<<"H", ".", " ", "R", "e", "p", "t", ".", " ", "1", "1", "7", "-", "2">>, in_hrefAbs)>>)>>),
     ORow(Val(OCell(Cell(<<"C", "o", "s", "p", "o", "n", "s", "o", "r", "s", ":">>))), <<OCell(Cell(<<"2">>))>>),
     ORow(Val(OCell(Cell(<<"S", "p", "o", "n", "s", "o", "r", ":">>))), <<OCell(Cell(<<"a">>)), OCell(Cell(<<"b">>))>>)}

OverviewTables ==
    {NoneV, Val(NoneV)} \cup {Val(Val(rows)) : rows \in SeqsUpTo(OverviewRows, MaxRows)}

\* tertiary
FText(s) == [tag |-> "text", s |-> s, href |-> <<>>, kids |-> <<>>]
FTag(tag, kids) == [tag |-> tag, s |-> <<>>, href |-> <<>>, kids |-> kids]
FAnchor(s, href) == [tag |-> "a", s |-> s, href |-> href, kids |-> <<>>]
Li(a_id, text, msg) == [a_id |-> a_id, text |-> text, msg |-> msg]
Section(h3, lis) == [h3 |-> h3, lis |-> lis]

in_authority ==
    <<FText(<<"B", "y", " ", "M", "r", ".", " ", "L", "E", "E", ":">>), FTag("br", <<>>), FText(<<"H", ".", "R", ".", " ", "1", ".">>), FTag("br", <<>>),
      FTag("bullet", <<FText(<<"C", "o", "n", "g", "r", "e", "s", "s", " ", "h", "a", "s", " ", "t", "h", "e", " ", "p", "o", "w", "e", "r", " ", "u", "n", "d", "e", "r", " ">>),
                       FAnchor(<<"A", "r", "t", "i", "c", "l", "e", " ", "I">>, in_hrefRel)>>),
      FTag("br", <<>>), FText(<<"[", "P", "a", "g", "e", " ", "H", "1", "]">>), FTag("h3", <<>>), FText(<<"A", "b", "o", "u", "t">>)>>

in_estimates ==
    <<FAnchor(<<"H", ".", "R", ".", " ", "1", ",", " ", "a", "s", " ", "i", "n", "t", "r", "o", "d", "u", "c", "e", "d">>, <<"h", "t", "t", "p", "s", ":", "/", "/", "w", "w", "w", ".", "c", "b", "o", ".", "g", "o", "v", "/", "p", "u", "b", "l", "i", "c", "a", "t", "i", "o", "n", "/", "1">>),
      FTag("ls-thn-eq", <<FAnchor(<<"C", "o", "s", "t", " ", "E", "s", "t", "i", "m", "a", "t", "e", "s", " ", "S", "e", "a", "r", "c", "h", " ", "p", "a", "g", "e">>, <<"h", "t", "t", "p", "s", ":", "/", "/", "w", "w", "w", ".", "c", "b", "o", ".", "g", "o", "v", "/", "c", "o", "s", "t", "-", "e", "s", "t", "i", "m", "a", "t", "e", "s">>)>>)>>

\* a heading inside a wrapper, with text after it inside and after the wrapper
in_authorityNested ==
    <<FTag("ls-thn-eq", <<FText(<<"C", "o", "n", "g", "r", "e", "s", "s", " ", "h", "a", "s", " ", "t", "h", "e", " ", "p", "o", "w", "e", "r">>), FTag("h3", <<FText(<<"A", "b", "o", "u", "t">>)>>),
                          FText(<<" ", "o", "f", " ", "t", "h", "e", " ", "p", "u", "r", "s", "e">>)>>),
      FText(<<" ", "t", "o", " ", "t", "a", "x">>)>>

TertiarySections ==
    {Section(Val(<<" ">> \o c_Subject_Policy_Area \o <<" ">>), <<Li("", <<" ", "H", "e", "a", "l", "t", "h", " ">>, NoneV)>>),
     Section(Val(c_Subject_Policy_Area), <<Li("", c_Private_Legislation, NoneV)>>),
     Section(Val(c_Subject_Policy_Area), <<>>),
     Section(NoneV, <<>>),
     Section(Val(<<"G", "i", "v", "e", " ", "F", "e", "e", "d", "b", "a", "c", "k", " ", "o", "n", " ", "T", "h", "i", "s", " ", "B", "i", "l", "l">>), <<Li("", <<"C", "o", "n", "t", "a", "c", "t">>, NoneV)>>),
     Section(Val(c_More_on_This_Bill),
             <<Li("constAuthButton", <<"C", "o", "n", "s", "t", "i", "t", "u", "t", "i", "o", "n", "a", "l", " ", "A", "u", "t", "h", "o", "r", "i", "t", "y", " ", "S", "t", "a", "t", "e", "m", "e", "n", "t">>, Val(in_authority)),
               Li("cboEstimateButton", <<"C", "B", "O", " ", "C", "o", "s", "t", " ", "E", "s", "t", "i", "m", "a", "t", "e", "s", " ", "[", "1", "]">>, Val(in_estimates)),
               Li("supportingMembersBtn", <<"S", "u", "p", "p", "o", "r", "t", "i", "n", "g", " ", "M", "e", "m", "b", "e", "r", "s">>, NoneV)>>),
     Section(Val(c_More_on_This_Bill),
             <<Li("constAuthButton", <<"C", "o", "n", "s", "t", "i", "t", "u", "t", "i", "o", "n", "a", "l", " ", "A", "u", "t", "h", "o", "r", "i", "t", "y", " ", "S", "t", "a", "t", "e", "m", "e", "n", "t">>,
                  Val(<<FTag("table", <<>>)>>))>>),
     Section(Val(c_More_on_This_Bill),
             <<Li("constAuthButton", <<"C", "o", "n", "s", "t", "i", "t", "u", "t", "i", "o", "n", "a", "l", " ", "A", "u", "t", "h", "o", "r", "i", "t", "y", " ", "S", "t", "a", "t", "e", "m", "e", "n", "t">>,
                  Val(in_authorityNested))>>),
     Section(Val(c_More_on_This_Bill), <<Li("cboEstimateButton", <<"C", "B", "O">>, NoneV)>>),
     Section(Val(c_More_on_This_Bill), <<Li("", <<"S", "e", "e", " ", "a", "l", "s", "o">>, NoneV)>>),
     Section(Val(c_More_on_This_Bill), <<Li("-", <<"S", "e", "e", " ", "a", "l", "s", "o">>, NoneV)>>),
     Section(Val(c_More_on_This_Bill), <<Li("billTextButton", <<"T", "e", "x", "t">>, NoneV)>>)}

Tertiaries == {NoneV} \cup {Val(ds) : ds \in SeqsUpTo(TertiarySections, MaxRows)}

Wrapper(overview, tertiary) == [overview |-> overview, tertiary |-> tertiary]

\* titles
Heading(text, neighbor) == [text |-> text, neighbor |-> neighbor]
Neighbor(name, strings) == [name |-> name, strings |-> strings]
TitlesDiv(class, house, senate) == [class |-> class, house |-> house, senate |-> senate]

in_houseTitles ==
    Val([h4s |-> <<Heading(<<"O", "f", "f", "i", "c", "i", "a", "l", " ", "T", "i", "t", "l", "e", " ", "a", "s", " ", "I", "n", "t", "r", "o", "d", "u", "c", "e", "d">>,
                           Val(Neighbor("p", <<<<"A", " ", "b", "i", "l", "l", " ", "t", "o", " ", "a", "m", "e", "n", "d", " ", "t", "i", "t", "l", "e", " ", "1", "8", ".">>>>))),
                   Heading(<<"S", "h", "o", "r", "t", " ", "T", "i", "t", "l", "e", "s", " ", "a", "s", " ", "P", "a", "s", "s", "e", "d", " ", "H", "o", "u", "s", "e">>,
                           Val(Neighbor("p", <<<<"C", "r", "i", "m", "e", " ", "A", "c", "t">>, <<"S", "a", "f", "e", "t", "y", " ", "A", "c", "t">>>>)))>>,
         h5s |-> <<Heading(<<"S", "h", "o", "r", "t", " ", "T", "i", "t", "l", "e", "s", " ", "a", "s", " ", "P", "a", "s", "s", "e", "d", " ", "H", "o", "u", "s", "e", " ", "f", "o", "r", " ", "p", "o", "r", "t", "i", "o", "n", "s", " ", "o", "f", " ", "t", "h", "i", "s", " ", "b", "i", "l", "l">>,
                           Val(Neighbor("ul", <<<<"T", "i", "t", "l", "e", " ", "I", " ", "A", "c", "t">>, <<"T", "i", "t", "l", "e", " ", "I", "I", " ", "A", "c", "t">>>>)))>>])
in_senateTitles ==
    Val([h4s |-> <<Heading(<<"O", "f", "f", "i", "c", "i", "a", "l", " ", "T", "i", "t", "l", "e", "s", " ", "a", "s", " ", "P", "a", "s", "s", "e", "d", " ", "S", "e", "n", "a", "t", "e">>,
                           Val(Neighbor("div", <<>>)))>>,
         h5s |-> <<>>])
in_brokenTitles ==
    Val([h4s |-> <<Heading(<<"O", "f", "f", "i", "c", "i", "a", "l", " ", "T", "i", "t", "l", "e", " ", "a", "s", " ", "I", "n", "t", "r", "o", "d", "u", "c", "e", "d">>, NoneV)>>, h5s |-> <<>>])

TitlesPanels ==
    {NoneV, Val(NoneV), Val(Val(<<>>)),
     Val(Val(<<TitlesDiv(Val(<<"titles-row">>), in_houseTitles, NoneV)>>)),
     Val(Val(<<TitlesDiv(NoneV, in_houseTitles, in_senateTitles)>>)),
     Val(Val(<<TitlesDiv(NoneV, in_brokenTitles, NoneV)>>)),
     Val(Val(<<TitlesDiv(Val(<<"shortTitles">>), NoneV, NoneV),
               TitlesDiv(Val(<<"titles-row">>), in_houseTitles, in_senateTitles),
               TitlesDiv(Val(<<"officialTitles">>), in_senateTitles, NoneV)>>)),
     Val(Val(<<TitlesDiv(Val(<<"titles-row">>), NoneV, NoneV),
               TitlesDiv(Val(<<"shortTitles">>), NoneV, NoneV),
               TitlesDiv(Val(<<"officialTitles">>), NoneV, NoneV)>>)),
     Val(Val(<<TitlesDiv(Val(<<"shortTitles">>), NoneV, NoneV),
               TitlesDiv(NoneV, NoneV, NoneV),
               TitlesDiv(Val(<<"officialTitles">>), NoneV, NoneV)>>)),
     Val(Val(<<TitlesDiv(Val(<<"titles-row">>), in_houseTitles, NoneV),
               TitlesDiv(Val(<<"titles-row">>), NoneV, in_senateTitles)>>))}

\* summaries
SumDiv(id, h3, ps) == [id |-> id, h3 |-> h3, ps |-> ps]

SummaryDivs ==
    {SumDiv(Val(<<"s", "u", "m", "m", "a", "r", "y", "-", "1">>), Val(<<" ", "S", "h", "o", "w", "n", " ", "H", "e", "r", "e", ":", " ", "I", "n", "t", "r", "o", "d", "u", "c", "e", "d", " ", "i", "n", " ", "H", "o", "u", "s", "e", " ", "(", "0", "1", "/", "0", "4", "/", "2", "0", "2", "1", ")", " ">>),
            <<<<"P", "a", "r", "a", " ", "o", "n", "e", ".">>, <<"P", "a", "r", "a", " ", "t", "w", "o", ".">>>>),
     SumDiv(Val(<<"s", "u", "m", "m", "a", "r", "y", "-", "2">>), Val(<<"S", "h", "o", "w", "n", " ", "H", "e", "r", "e", ":", " ", "P", "a", "s", "s", "e", "d", " ", "H", "o", "u", "s", "e">>), <<>>),
     SumDiv(Val(<<"b", "i", "l", "l", "-", "s", "u", "m", "m", "a", "r", "y", "-", "n", "a", "v">>), NoneV, <<>>),
     SumDiv(NoneV, NoneV, <<<<"s", "t", "r", "a", "y">>>>),
     SumDiv(Val(<<"s", "u", "m", "m", "a", "r", "y", "-", "3">>), NoneV, <<<<"P", "a", "r", "a", ".">>>>)}

SummariesPanels == {NoneV} \cup {Val(ds) : ds \in SeqsUpTo(SummaryDivs, MaxRows)}

-----------------------------------------------------------------------------
(* The extractors, each run on a page *)

BasePage ==
    [wrapper |-> Val(Wrapper(Val(Val(<<>>)), Val(<<>>))),
     titles |-> Val(Val(<<TitlesDiv(Val(<<"titles-row">>), NoneV, NoneV)>>)),
     actions |-> NoneV, cosponsors |-> NoneV, committees |-> NoneV,
     related |-> NoneV, subjects |-> NoneV, summaries |-> NoneV]

Pages ==
    {[BasePage EXCEPT !.wrapper = NoneV]}
    \cup {[BasePage EXCEPT !.wrapper = Val(Wrapper(o, Val(<<>>)))] : o \in OverviewTables}
    \cup {[BasePage EXCEPT !.wrapper = Val(Wrapper(Val(Val(<<>>)), t))] : t \in Tertiaries}
    \cup {[BasePage EXCEPT !.titles = x] : x \in TitlesPanels}
    \cup {[BasePage EXCEPT !.actions = x] : x \in ActionsPanels}
    \cup {[BasePage EXCEPT !.cosponsors = x] : x \in CosponsorsPanels}
    \cup {[BasePage EXCEPT !.committees = x] : x \in CommitteesPanels}
    \cup {[BasePage EXCEPT !.related = x] : x \in RelatedPanels}
    \cup {[BasePage EXCEPT !.subjects = x] : x \in SubjectsPanels}
    \cup {[BasePage EXCEPT !.summaries = x] : x \in SummariesPanels}

BaseBill == new_bill(117, "hr", 1)

\* parse() is not running
NoBatch ==
    /\ fs = <<>>
    /\ at = 0
    /\ collection = <<>>
    /\ runs = 0
    /\ once = <<>>
    /\ log = <<>>

\* the record an extractor is handed: the fresh record of parse(), and for
\* the subjects panel the record with the policy area parse_tertiary left
BillsFor(page) ==
    IF page.subjects = NoneV THEN {BaseBill}
    ELSE {[BaseBill EXCEPT !.policy_area = p] : p \in PolicyAreas}

Init ==
    /\ soup \in Pages
    /\ bill \in BillsFor(soup)
    /\ bill0 = bill
    /\ pc = "ready"
    /\ fn = "none"
    /\ exc = "none"
    /\ arg = NoArg
    /\ ret = NoRet
    /\ NoBatch

\* bill = parse_X(bill, soup): the record as the call left it, and whether
\* the call returned or raised
Call(name, r) ==
    /\ pc' = IF r.exc = "none" THEN "returned" ELSE "raised"
    /\ fn' = name
    /\ bill' = r.bill
    /\ exc' = r.exc
    /\ UNCHANGED <<arg, ret, soup, bill0, store_vars>>

Call_parse_overview ==
    /\ pc = "ready"
    /\ Call("parse_overview", parse_overview(bill, soup))
Call_parse_tertiary ==
    /\ pc = "ready"
    /\ Call("parse_tertiary", parse_tertiary(bill, soup))
Call_parse_titles ==
    /\ pc = "ready"
    /\ \E r \in parse_titles_outcomes(bill, soup) : Call("parse_titles", r)
Call_parse_actions ==
    /\ pc = "ready"
    /\ Call("parse_actions", parse_actions(bill, soup))
Call_parse_consponsors ==
    /\ pc = "ready"
    /\ Call("parse_consponsors", parse_consponsors(bill, soup))
Call_parse_committees ==
    /\ pc = "ready"
    /\ Call("parse_committees", parse_committees(bill, soup))
Call_parse_related ==
    /\ pc = "ready"
    /\ Call("parse_related", parse_related(bill, soup))
Call_parse_subjects ==
    /\ pc = "ready"
    /\ Call("parse_subjects", parse_subjects(bill, soup))
Call_parse_summaries ==
    /\ pc = "ready"
    /\ Call("parse_summaries", parse_summaries(bill, soup))

Next ==
    \/ Call_parse_overview
    \/ Call_parse_tertiary
    \/ Call_parse_titles
    \/ Call_parse_actions
    \/ Call_parse_consponsors
    \/ Call_parse_committees
    \/ Call_parse_related
    \/ Call_parse_subjects
    \/ Call_parse_summaries

Spec == Init /\ [][Next]_vars

-----------------------------------------------------------------------------
(* The text-run parsers, each run on a string *)

InitText ==
    /\ \/ arg \in PhpArgs
       \/ arg \in IdentityArgs
    /\ pc = "ready"
    /\ fn = "none"
    /\ ret = NoRet
    /\ exc = "none"
    /\ soup = BasePage
    /\ bill = BaseBill
    /\ bill0 = BaseBill
    /\ NoBatch

CallText(name, r) ==
    /\ pc' = IF r.exc = "none" THEN "returned" ELSE "raised"
    /\ fn' = name
    /\ ret' = r
    /\ exc' = r.exc
    /\ UNCHANGED <<arg, soup, bill, bill0, store_vars>>

Call_parse_php_array ==
    /\ pc = "ready"
    /\ arg.kind = "php"
    /\ CallText("parse_php_array", parse_php_array(arg.s))
Call_parse_overview_sponsor ==
    /\ pc = "ready"
    /\ arg.kind = "identity"
    /\ CallText("parse_overview_sponsor", parse_overview_sponsor(arg.s))
Call_parse_cosponsor ==
    /\ pc = "ready"
    /\ arg.kind = "identity"
    /\ CallText("parse_cosponsor", parse_cosponsor(arg.s))

NextText ==
    \/ Call_parse_php_array
    \/ Call_parse_overview_sponsor
    \/ Call_parse_cosponsor

SpecText == InitText /\ [][NextText]_vars

-----------------------------------------------------------------------------
(* parse(): the batch over the saved pages, and the store *)

c_congress == 117
c_All_Info == <<"A", "l", "l", " ", "I", "n", "f", "o", " ", "-", " ">>

\* a parse() that takes every title
title_any(title) == TRUE

\* bill_soup.title.text.startswith("All Info - ")
title_ok(title) == StartsWith(title, c_All_Info)

\* the extractors with the titles before the overview
ExtractorsTitlesFirst ==
    <<"parse_titles", "parse_tertiary", "parse_overview", "parse_actions",
      "parse_consponsors", "parse_committees", "parse_related", "parse_subjects",
      "parse_summaries">>

\* the calls bill = parse_X(bill, bill_soup) of parse(), in order
Extractors ==
    <<"parse_overview", "parse_tertiary", "parse_titles", "parse_actions",
      "parse_consponsors", "parse_committees", "parse_related", "parse_subjects",
      "parse_summaries">>

\* the outcomes of one call: more than one for parse_titles, whose loop over
\* the set of title strings may take any order
run_extractor(name, b, page) ==
    CASE name = "parse_overview" -> {parse_overview(b, page)}
      [] name = "parse_tertiary" -> {parse_tertiary(b, page)}
      [] name = "parse_titles" -> parse_titles_outcomes(b, page)
      [] name = "parse_actions" -> {parse_actions(b, page)}
      [] name = "parse_consponsors" -> {parse_consponsors(b, page)}
      [] name = "parse_committees" -> {parse_committees(b, page)}
      [] name = "parse_related" -> {parse_related(b, page)}
      [] name = "parse_subjects" -> {parse_subjects(b, page)}
      [] name = "parse_summaries" -> {parse_summaries(b, page)}

\* the calls from the k-th on: an exception leaves the sequence; ran is the
\* number of extractors that were called
RECURSIVE extract_from(_, _, _)
extract_from(k, b, page) ==
    IF k > Len(Extractors)
    THEN {[bill |-> b, exc |-> "none", ran |-> Len(Extractors)]}
    ELSE UNION {IF r.exc # "none"
                THEN {[bill |-> r.bill, exc |-> r.exc, ran |-> k]}
                ELSE extract_from(k + 1, r.bill, page) :
                    r \in run_extractor(Extractors[k], b, page)}

\* the nine calls bill = parse_X(bill, bill_soup): every record, or record
\* and exception, they may end with
extract_outcomes(b, page) == extract_from(1, b, page)

\* the filter {"congress": congress, "type": bill_type, "number": i}
matches(doc, b) ==
    doc.congress = b.congress /\ doc.type = b.type /\ doc.number = b.number

\* find_one: the position of the first document the filter matches, 0 for None
find_one(coll, b) ==
    IF \E i \in 1..Len(coll) : matches(coll[i], b)
    THEN CHOOSE i \in 1..Len(coll) :
            matches(coll[i], b) /\ \A j \in 1..(i - 1) : ~matches(coll[j], b)
    ELSE 0

\* read_local_db: what find_one returns, or None when find_one raises
read_local_db(b, bill_collection) == {find_one(bill_collection, b), 0}

insert_one(coll, doc) == Append(coll, doc)

\* {"$set": bill}: the keys bill holds overwrite those of the document
set_fields(doc, b) ==
    [k \in DOMAIN doc |-> IF k \in BillFields /\ b[k] = Absent THEN doc[k] ELSE b[k]]

\* update_one(filter, {"$set": bill}) on the first document the filter matches
update_one(coll, b) ==
    IF find_one(coll, b) = 0 THEN coll
    ELSE [coll EXCEPT ![find_one(coll, b)] = set_fields(@, b)]

\* the bill types in the order of the loop
bill_types ==
    <<<<"h", "o", "u", "s", "e", "-", "b", "i", "l", "l">>, <<"h", "o", "u", "s", "e", "-", "r", "e", "s", "o", "l", "u", "t", "i", "o", "n">>, <<"h", "o", "u", "s", "e", "-", "c", "o", "n", "c", "u", "r", "r", "e", "n", "t", "-", "r", "e", "s", "o", "l", "u", "t", "i", "o", "n">>,
      <<"h", "o", "u", "s", "e", "-", "j", "o", "i", "n", "t", "-", "r", "e", "s", "o", "l", "u", "t", "i", "o", "n">>, <<"s", "e", "n", "a", "t", "e", "-", "b", "i", "l", "l">>, <<"s", "e", "n", "a", "t", "e", "-", "r", "e", "s", "o", "l", "u", "t", "i", "o", "n">>,
      <<"s", "e", "n", "a", "t", "e", "-", "c", "o", "n", "c", "u", "r", "r", "e", "n", "t", "-", "r", "e", "s", "o", "l", "u", "t", "i", "o", "n">>, <<"s", "e", "n", "a", "t", "e", "-", "j", "o", "i", "n", "t", "-", "r", "e", "s", "o", "l", "u", "t", "i", "o", "n">>>>

\* the characters of the paths in the order of their code points
CodePoints == <<"-", ".", "/", "0", "1", "2", "3", "4", "5", "6", "7", "8", "9", "a", "b", "c", "d", "e", "f", "g", "h", "i", "j", "k", "l", "m", "n", "o", "p", "q", "r", "s", "t", "u", "v", "w", "x", "y", "z">>

ord(c) == CHOOSE i \in 1..Len(CodePoints) : CodePoints[i] = c

\* s < t for str
RECURSIVE str_less(_, _)
str_less(s, t) ==
    IF t = <<>> THEN FALSE
    ELSE IF s = <<>> THEN TRUE
    ELSE IF Head(s) = Head(t) THEN str_less(Tail(s), Tail(t))
    ELSE ord(Head(s)) < ord(Head(t))

\* a saved page file data/117/{dir}/src.html.gz: the title of the page
\* (None when it has no <title>) and the page
File(dir, title, page) == [dir |-> dir, title |-> title, page |-> page]

path(f) == <<"d", "a", "t", "a", "/", "1", "1", "7", "/">> \o f.dir \o <<"/", "s", "r", "c", ".", "h", "t", "m", "l", ".", "g", "z">>

\* glob(f"data/{congress}/{bill_type}-*/src.html.gz")
glob(files, bill_type) == {f \in files : StartsWith(f.dir, bill_type \o <<"-">>)}

\* sorted(fs): ascending paths
RECURSIVE sorted(_)
sorted(files) ==
    IF files = {} THEN <<>>
    ELSE LET f == CHOOSE g \in files : \A h \in files \ {g} : str_less(path(g), path(h))
         IN  <<f>> \o sorted(files \ {f})

\* the files in the order the two loops visit them, each with the bill type
\* of the loop it is visited in
RECURSIVE listing(_, _)
listing(files, types) ==
    IF types = <<>> THEN <<>>
    ELSE [i \in 1..Cardinality(glob(files, Head(types))) |->
            [type |-> Head(types), file |-> sorted(glob(files, Head(types)))[i]]]
         \o listing(files, Tail(types))

\* i = int(os.path.basename(os.path.dirname(f)).split("-")[-1])
bill_number(f) == NumVal(Split(f.dir, <<"-">>)[Len(Split(f.dir, <<"-">>))])

MaxFiles == 2
MaxRuns == 2
MaxFailures == 1

in_titlesPage ==
    [BasePage EXCEPT
        !.titles = Val(Val(<<TitlesDiv(Val(<<"titles-row">>), in_houseTitles, NoneV)>>))]

in_richPage ==
    [BasePage EXCEPT
        !.actions = Val(Table(TRUE, Val(<<<<"D", "a", "t", "e">>, <<"C", "h", "a", "m", "b", "e", "r">>, <<"A", "l", "l", " ", "A", "c", "t", "i", "o", "n", "s">>>>), TRUE,
                        <<Row(NoneV, NoneV,
                              <<Cell(in_d1), Cell(<<"H", "o", "u", "s", "e">>), ActionCells[3]>>)>>)),
        !.subjects = Val([nav |-> Val(<<>>), main |-> Val(<<c_Private_Legislation>>)]),
        !.summaries = Val(<<>>)]

in_sponsorPage ==
    [BasePage EXCEPT
        !.wrapper = Val(Wrapper(Val(Val(<<
            ORow(Val(OCell(Cell(<<"S", "p", "o", "n", "s", "o", "r", ":">>))),
                 <<SponsorCell(<<"R", "e", "p", ".", " ", "L", "e", "e", ",", " ", "M", "i", "a", " ", "[", "D", "-", "C", "A", "-", "1", "2", "]">>, in_hrefMember)>>)>>)),
            Val(<<>>)))]

\* the saved files: house-bill-1 in two versions, with and without a sponsor
\* row
SavedFiles ==
    {File(<<"h", "o", "u", "s", "e", "-", "b", "i", "l", "l", "-", "1">>, Val(<<"A", "l", "l", " ", "I", "n", "f", "o", " ", "-", " ", "H", ".", "R", ".", "1", " ", "-", " ", "1", "1", "7", "t", "h", " ", "C", "o", "n", "g", "r", "e", "s", "s">>), in_sponsorPage),
     File(<<"h", "o", "u", "s", "e", "-", "b", "i", "l", "l", "-", "1">>, Val(<<"A", "l", "l", " ", "I", "n", "f", "o", " ", "-", " ", "H", ".", "R", ".", "1", " ", "-", " ", "1", "1", "7", "t", "h", " ", "C", "o", "n", "g", "r", "e", "s", "s">>), BasePage),
     File(<<"h", "o", "u", "s", "e", "-", "b", "i", "l", "l", "-", "2">>, Val(<<"T", "e", "x", "t", " ", "-", " ", "H", ".", "R", ".", "2", " ", "-", " ", "1", "1", "7", "t", "h", " ", "C", "o", "n", "g", "r", "e", "s", "s">>), in_richPage),
     File(<<"h", "o", "u", "s", "e", "-", "b", "i", "l", "l", "-", "1", "0">>, Val(<<"A", "l", "l", " ", "I", "n", "f", "o", " ", "-", " ", "H", ".", "R", ".", "1", "0", " ", "-", " ", "1", "1", "7", "t", "h", " ", "C", "o", "n", "g", "r", "e", "s", "s">>), in_titlesPage),
     File(<<"h", "o", "u", "s", "e", "-", "r", "e", "s", "o", "l", "u", "t", "i", "o", "n", "-", "1">>, Val(<<"A", "l", "l", " ", "I", "n", "f", "o", " ", "-", " ", "H", ".", "R", "e", "s", ".", "1", " ", "-", " ", "1", "1", "7", "t", "h", " ", "C", "o", "n", "g", "r", "e", "s", "s">>), BasePage),
     File(<<"h", "o", "u", "s", "e", "-", "c", "o", "n", "c", "u", "r", "r", "e", "n", "t", "-", "r", "e", "s", "o", "l", "u", "t", "i", "o", "n", "-", "1">>,
          Val(<<"A", "l", "l", " ", "I", "n", "f", "o", " ", "-", " ", "H", ".", "C", "o", "n", ".", "R", "e", "s", ".", "1", " ", "-", " ", "1", "1", "7", "t", "h", " ", "C", "o", "n", "g", "r", "e", "s", "s">>), BasePage),
     File(<<"s", "e", "n", "a", "t", "e", "-", "b", "i", "l", "l", "-", "1">>, Val(<<"A", "l", "l", " ", "I", "n", "f", "o", " ", "-", " ", "S", ".", "1", " ", "-", " ", "1", "1", "7", "t", "h", " ", "C", "o", "n", "g", "r", "e", "s", "s">>), in_richPage),
     File(<<"s", "e", "n", "a", "t", "e", "-", "b", "i", "l", "l", "-", "2">>, Val(<<"A", "l", "l", " ", "I", "n", "f", "o", " ", "-", " ", "S", ".", "2", " ", "-", " ", "1", "1", "7", "t", "h", " ", "C", "o", "n", "g", "r", "e", "s", "s">>),
          [BasePage EXCEPT !.wrapper = NoneV]),
     File(<<"s", "e", "n", "a", "t", "e", "-", "b", "i", "l", "l", "-", "3">>, NoneV, BasePage)}

DirsOf(files) == {f.dir : f \in files}

\* the data directory: at most MaxFiles files, one per path
FileSets ==
    {F \in SUBSET SavedFiles :
        Cardinality(F) <= MaxFiles /\ Cardinality(DirsOf(F)) = Cardinality(F)}

InitParse ==
    /\ fs \in {listing(F, bill_types) : F \in FileSets}
    /\ at = 1
    /\ collection = <<>>
    /\ runs = 0
    /\ once = <<>>
    /\ log = <<>>
    /\ pc = "running"
    /\ fn = "parse"
    /\ exc = "none"
    /\ soup = BasePage
    /\ bill = BaseBill
    /\ bill0 = BaseBill
    /\ arg = NoArg
    /\ ret = NoRet

\* a run of parse() ends: the first run leaves `once`
parse_ends(coll) ==
    /\ runs' = runs + 1
    /\ once' = IF runs = 0 THEN coll ELSE once

Logged(ops) == log \o [i \in 1..Len(ops) |-> [op |-> ops[i], at |-> at, run |-> runs]]

\* the number of find_one calls that raised
Failures == Cardinality({i \in 1..Len(log) : log[i].op = "find_one raised"})

\* bill_soup.title is None: .text raises
parse_untitled ==
    /\ pc = "running"
    /\ at <= Len(fs)
    /\ fs[at].file.title = NoneV
    /\ pc' = "raised"
    /\ exc' = "AttributeError"
    /\ fn' = "title"
    /\ parse_ends(collection)
    /\ UNCHANGED <<arg, ret, soup, bill0, bill, fs, at, collection, log>>

\* the title does not start with "All Info - ": continue
parse_skip ==
    /\ pc = "running"
    /\ at <= Len(fs)
    /\ fs[at].file.title # NoneV
    /\ ~title_ok(fs[at].file.title.v)
    /\ at' = at + 1
    /\ fn' = "skip"
    /\ UNCHANGED <<pc, exc, arg, ret, soup, bill0, bill, fs, collection, runs, once, log>>

\* one pass of the loop body from read_local_db to update_one; an extractor
\* that raises ends parse()
parse_bill ==
    /\ pc = "running"
    /\ at <= Len(fs)
    /\ fs[at].file.title # NoneV
    /\ title_ok(fs[at].file.title.v)
    /\ LET bill_ == new_bill(c_congress, fs[at].type, bill_number(fs[at].file))
       IN  \E found \in read_local_db(bill_, collection) :
           \E r \in extract_outcomes(bill_, fs[at].file.page) :
           LET raised == found # find_one(collection, bill_)
               stored == IF found = 0 THEN insert_one(collection, bill_) ELSE collection
               calls == <<"find_one">>
                        \o (IF raised THEN <<"find_one raised">> ELSE <<>>)
                        \o (IF found = 0 THEN <<"insert_one">> ELSE <<>>)
                        \o SubSeq(Extractors, 1, r.ran)
           IN  /\ raised => Failures < MaxFailures
               /\ bill0' = bill_
               /\ bill' = r.bill
               /\ soup' = fs[at].file.page
               /\ exc' = r.exc
               /\ fn' = "extract"
               /\ IF r.exc = "none"
                  THEN /\ collection' = update_one(stored, r.bill)
                       /\ log' = Logged(calls \o <<"update_one">>)
                       /\ at' = at + 1
                       /\ UNCHANGED <<pc, runs, once>>
                  ELSE /\ collection' = stored
                       /\ log' = Logged(calls)
                       /\ pc' = "raised"
                       /\ parse_ends(stored)
                       /\ UNCHANGED at
    /\ UNCHANGED <<arg, ret, fs>>

\* the loops are over
parse_return ==
    /\ pc = "running"
    /\ at > Len(fs)
    /\ pc' = "done"
    /\ fn' = "parse"
    /\ parse_ends(collection)
    /\ UNCHANGED <<exc, arg, ret, soup, bill0, bill, fs, at, collection, log>>

\* parse() is run again on the same files
parse_again ==
    /\ pc \in {"done", "raised"}
    /\ runs < MaxRuns
    /\ pc' = "running"
    /\ fn' = "parse"
    /\ exc' = "none"
    /\ at' = 1
    /\ UNCHANGED <<arg, ret, soup, bill0, bill, fs, collection, runs, once, log>>

\* the pages are saved again, some with another content, and parse() is run
\* on them
parse_saved_again ==
    /\ pc \in {"done", "raised"}
    /\ runs < MaxRuns
    /\ \E F \in FileSets :
        /\ DirsOf(F) = {fs[i].file.dir : i \in 1..Len(fs)}
        /\ fs' = listing(F, bill_types)
        /\ fs' # fs
    /\ log' = log \o <<[op |-> "saved", at |-> 0, run |-> runs]>>
    /\ pc' = "running"
    /\ fn' = "parse"
    /\ exc' = "none"
    /\ at' = 1
    /\ UNCHANGED <<arg, ret, soup, bill0, bill, collection, runs, once>>

NextParse ==
    \/ parse_untitled
    \/ parse_skip
    \/ parse_bill
    \/ parse_return
    \/ parse_again
    \/ parse_saved_again

SpecParse == InitParse /\ [][NextParse]_vars


-----------------------------------------------------------------------------
(* Properties of the extractors and of the text-run parsers *)

TableExtractors ==
    {"parse_actions", "parse_consponsors", "parse_committees", "parse_related"}

\* the container the extractor that ran looks for
Container ==
    CASE fn \in {"parse_overview", "parse_tertiary"} -> soup.wrapper
      [] fn = "parse_titles" -> soup.titles
      [] fn = "parse_actions" -> soup.actions
      [] fn = "parse_consponsors" -> soup.cosponsors
      [] fn = "parse_committees" -> soup.committees
      [] fn = "parse_related" -> soup.related
      [] fn = "parse_subjects" -> soup.subjects
      [] fn = "parse_summaries" -> soup.summaries

\* the keys the extractor that ran writes
Written ==
    CASE fn = "parse_overview" -> {"sponsor", "tracker", "reports"}
      [] fn = "parse_tertiary" ->
            {"constitutional_authority_statement", "cbo_estimates", "policy_area"}
      [] fn = "parse_titles" -> {"titles"}
      [] fn = "parse_actions" -> {"actions"}
      [] fn = "parse_consponsors" -> {"cosponsors"}
      [] fn = "parse_committees" -> {"committees"}
      [] fn = "parse_related" -> {"related"}
      [] fn = "parse_subjects" -> {"subjects"}
      [] fn = "parse_summaries" -> {"summaries"}

IsDefault(x) == x = Absent \/ x = NoneV \/ x = Val(<<>>)

\* C1: an extractor run on a page without its container returns without
\* raising and leaves the keys it writes at the empty list or None.
C1_AbsentContainerIsDefault ==
    (pc # "ready" /\ Container = NoneV)
        => /\ pc = "returned"
           /\ \A k \in Written : IsDefault(bill[k])

\* C2: parse_actions, parse_consponsors, parse_committees and parse_related,
\* run on a panel whose header row is there and whose set of normalized
\* column labels is none of the extractor's schemas, raise and leave the
\* record as it was.
HeaderLabels ==
    IF fn = "parse_related" THEN related_col_names(Container.v.header.v)
    ELSE col_names(Container.v.header.v)

Schemas ==
    CASE fn = "parse_actions" -> {actions_schema3, actions_schema2}
      [] fn = "parse_consponsors" -> {cosponsors_schema, cosponsors_schema_withdrawn}
      [] fn = "parse_committees" -> {committees_schema}
      [] fn = "parse_related" -> {related_schema}

HeaderRowThere ==
    /\ fn \in TableExtractors
    /\ pc # "ready"
    /\ Container # NoneV
    /\ Container.v.thead
    /\ Container.v.header # NoneV

C2_UnknownColumnsRaise ==
    (HeaderRowThere /\ SetOf(HeaderLabels) \notin Schemas)
        => /\ pc = "raised"
           /\ bill = bill0

C2_Witness ==
    /\ HeaderRowThere
    /\ fn = "parse_committees"
    /\ SetOf(HeaderLabels) \notin Schemas
    /\ Container.v.tbody
    /\ Container.v.rows # <<>>
    /\ exc = "ValueError"
    /\ bill.committees = Absent

\* C3: on an identity string that starts with one of the four titles,
\* parse_overview_sponsor (given the sponsor form, which ends with the
\* parenthetical) and parse_cosponsor return party and state with district
\* None for one hyphen in the position token, party, state and district for
\* two, and raise for any other number; on a string that starts with none of
\* the four titles they raise.
Hyphens == Len(arg.pos) - 1

IdentityCalled ==
    /\ pc # "ready"
    /\ arg.kind = "identity"
    /\ fn = "parse_overview_sponsor" => arg.form = "sponsor"

C3_HyphenCountDecides ==
    IdentityCalled =>
        IF arg.title \notin valid_titles THEN pc = "raised"
        ELSE IF Hyphens = 1
        THEN /\ pc = "returned"
             /\ ret.v.party = arg.pos[1]
             /\ ret.v.state = arg.pos[2]
             /\ ret.v.district = NoneV
        ELSE IF Hyphens = 2
        THEN /\ pc = "returned"
             /\ ret.v.party = arg.pos[1]
             /\ ret.v.state = arg.pos[2]
             /\ ret.v.district = Val(arg.pos[3])
        ELSE pc = "raised"

C3_Witness ==
    /\ IdentityCalled
    /\ fn = "parse_overview_sponsor"
    /\ arg.title = c_ResCom
    /\ Hyphens = 2
    /\ pc = "returned"
    /\ ret.v.district = Val(<<"A", "t", " ", "L", "a", "r", "g", "e">>)
    /\ ret.v.full_name = <<"J", "o", "h", "n", " ", "A", ".", " ", "S", "m", "i", "t", "h">>

\* C4: parse_php_array run on the serialization of a list of pairs with
\* distinct keys returns the mapping that holds exactly those pairs.
C4_LeftInverse ==
    (fn = "parse_php_array" /\ pc # "ready")
        => /\ pc = "returned"
           /\ ret.v = pairs_dict(arg.pairs)

\* the body rows of the table the extractor that ran was given
BodyRows == Container.v.rows

\* the position of the column under label
ColumnOf(label) == CHOOSE i \in 1..Len(HeaderLabels) : HeaderLabels[i] = label

\* the first <span> of a cell, 0 when it has none
FirstSpan(cell) ==
    IF \E i \in 1..Len(cell) : cell[i].tag = "span"
    THEN CHOOSE i \in 1..Len(cell) :
            cell[i].tag = "span" /\ \A j \in 1..(i - 1) : cell[j].tag # "span"
    ELSE 0

\* the whitespace a text starts with and the whitespace it ends with
LeadingSpace(s) ==
    SubSeq(s, 1, CHOOSE n \in 0..Len(s) :
                    /\ \A i \in 1..n : s[i] \in Whitespace
                    /\ n < Len(s) => s[n + 1] \notin Whitespace)
TrailingSpace(s) ==
    SubSeq(s, 1 + (CHOOSE n \in 0..Len(s) :
                    /\ \A i \in (n + 1)..Len(s) : s[i] \in Whitespace
                    /\ n > 0 => s[n] \notin Whitespace), Len(s))

\* the marker of a cell: the text of its first span, trimmed
MarkerOf(cell) == Strip(cell[FirstSpan(cell)].s)

HasMarker(cell) == FirstSpan(cell) # 0 /\ StartsWith(MarkerOf(cell), c_ActionBy)

\* the text of a cell around its marker: the text of the nodes before the
\* span, the whitespace around the marker within the span, the text of the
\* nodes after the span; the <br> before the span holds no text
AroundMarker(cell) ==
    cell_text(SubSeq(cell, 1, FirstSpan(cell) - 1))
        \o LeadingSpace(cell[FirstSpan(cell)].s)
        \o (IF MarkerOf(cell) = <<>> THEN <<>>
            ELSE TrailingSpace(cell[FirstSpan(cell)].s))
        \o cell_text(SubSeq(cell, FirstSpan(cell) + 1, Len(cell)))

ActionsReturnedTwoColumns ==
    /\ HeaderRowThere
    /\ fn = "parse_actions"
    /\ pc = "returned"
    /\ SetOf(HeaderLabels) = actions_schema2

\* C5: under {date, all actions}, for every row whose action cell holds a
\* marker starting with "Action By:", `by` is the marker without that prefix,
\* trimmed, and `action` holds neither the marker nor the <br> before it and
\* is otherwise the text of the cell, trimmed.
C5_MarkerLeavesActionText ==
    ActionsReturnedTwoColumns =>
        \A i \in 1..Len(BodyRows) :
            LET cell == BodyRows[i].tds[ColumnOf(c_all_actions)]
            IN  HasMarker(cell) =>
                  /\ bill.actions.v[i].by =
                        Val(Strip(SubSeq(MarkerOf(cell), Len(c_ActionBy) + 1,
                                         Len(MarkerOf(cell)))))
                  /\ ~Contains(bill.actions.v[i].action, MarkerOf(cell))
                  /\ bill.actions.v[i].action = Strip(AroundMarker(cell))

C5_Witness ==
    /\ ActionsReturnedTwoColumns
    /\ Len(BodyRows) = 2
    /\ HasMarker(BodyRows[1].tds[ColumnOf(c_all_actions)])
    /\ Len(BodyRows[1].tds[ColumnOf(c_all_actions)]) > 3
    /\ ~HasMarker(BodyRows[2].tds[ColumnOf(c_all_actions)])
    /\ bill.actions.v[1].by = Val(<<"S", "e", "n", "a", "t", "e">>)
    /\ bill.actions.v[2].by = NoneV

\* the last row at or before i that has a header cell, 0 when there is none
HeaderRowOf(i) ==
    IF \E j \in 1..i : BodyRows[j].th # NoneV
    THEN CHOOSE j \in 1..i :
            BodyRows[j].th # NoneV /\ \A k \in (j + 1)..i : BodyRows[k].th = NoneV
    ELSE 0

CommitteesReturned ==
    /\ HeaderRowThere
    /\ fn = "parse_committees"
    /\ pc = "returned"

\* C6: every entry parse_committees emits carries the name and the
\* subcommittee flag of the nearest row at or before its own that has a
\* header cell: its own row when that row has one.
C6_HeaderCellCarriedForward ==
    CommitteesReturned =>
        /\ Len(bill.committees.v) = Len(BodyRows)
        /\ \A i \in 1..Len(BodyRows) :
              /\ HeaderRowOf(i) # 0
              /\ bill.committees.v[i].name =
                    Strip(cell_text(BodyRows[HeaderRowOf(i)].th.v))
              /\ bill.committees.v[i].is_subcommittee =
                    ("subcommittee" \in BodyRows[HeaderRowOf(i)].class.v)

C6_Witness ==
    /\ CommitteesReturned
    /\ Len(BodyRows) = 3
    /\ BodyRows[1].th # NoneV
    /\ BodyRows[2].th # NoneV
    /\ BodyRows[3].th = NoneV
    /\ ~bill.committees.v[1].is_subcommittee
    /\ bill.committees.v[2].is_subcommittee
    /\ bill.committees.v[3].is_subcommittee
    /\ bill.committees.v[3].name = <<"S", "u", "b", "c", "o", "m", "m", "i", "t", "t", "e", "e", " ", "o", "n", " ", "C", "r", "i", "m", "e">>

SubjectsCalled ==
    /\ fn = "parse_subjects"
    /\ pc # "ready"
    /\ Container # NoneV

\* the subject list items of the page, trimmed
PageSubjects ==
    IF Container.v.main = NoneV THEN {}
    ELSE {Strip(Container.v.main.v[i]) : i \in 1..Len(Container.v.main.v)}

\* C7: parse_subjects, entered with policy_area None on a page that has
\* "Private Legislation" among its subject list items, returns with
\* policy_area "Private Legislation", whatever the side panel holds.
C7_PrivateLegislationBackfill ==
    (SubjectsCalled /\ bill0.policy_area = NoneV
        /\ c_Private_Legislation \in PageSubjects)
        => /\ pc = "returned"
           /\ bill.policy_area = Val(c_Private_Legislation)

PolicyAreaSet == bill0.policy_area # NoneV /\ bill0.policy_area # Absent

OneEntry == Container.v.nav # NoneV /\ Len(Container.v.nav.v) = 1

\* C8: parse_subjects, entered with policy_area set on a page whose side
\* panel holds exactly one entry, raises AssertionError and leaves subjects
\* and policy_area as they were when the entry differs from policy_area, and
\* returns when it equals it.
C8_PolicyAreaChecked ==
    (SubjectsCalled /\ PolicyAreaSet /\ OneEntry) =>
        IF Strip(Container.v.nav.v[1]) # bill0.policy_area.v
        THEN /\ pc = "raised"
             /\ exc = "AssertionError"
             /\ bill.subjects = bill0.subjects
             /\ bill.policy_area = bill0.policy_area
        ELSE pc = "returned"

C8_Witness ==
    /\ SubjectsCalled
    /\ PolicyAreaSet
    /\ OneEntry
    /\ Strip(Container.v.nav.v[1]) # bill0.policy_area.v
    /\ c_Private_Legislation \in PageSubjects
    /\ exc = "AssertionError"
    /\ bill.subjects = Absent

\* the hrefs of the anchors of a list of cells
HrefsOf(cells) ==
    UNION {{cells[i][j].href : j \in {j \in 1..Len(cells[i]) : cells[i][j].tag = "a"}} :
            i \in 1..Len(cells)}

\* the hrefs of the anchors of the table the extractor that ran was given
PageHrefs ==
    IF fn = "parse_overview"
    THEN LET rows == Container.v.overview.v.v
         IN  UNION {HrefsOf([j \in 1..Len(rows[i].tds) |-> rows[i].tds[j].nodes]) :
                        i \in 1..Len(rows)}
    ELSE UNION {HrefsOf(BodyRows[i].tds) : i \in 1..Len(BodyRows)}

UrlsOf(entries) == {entries[i].url : i \in 1..Len(entries)}

\* the URLs the extractor that ran has put into the record
EmittedUrls ==
    CASE fn = "parse_overview" ->
            (IF bill.sponsor = Absent THEN {} ELSE {bill.sponsor.v.url})
            \cup (IF bill.reports = Absent THEN {} ELSE UrlsOf(bill.reports.v))
      [] fn = "parse_actions" ->
            UNION {UrlsOf(bill.actions.v[i].links) : i \in 1..Len(bill.actions.v)}
      [] fn = "parse_committees" ->
            UNION {UrlsOf(bill.committees.v[i].related_documents) :
                        i \in 1..Len(bill.committees.v)}
      [] fn = "parse_related" -> UrlsOf(bill.related.v)

\* the URL of an href: the href when it starts with "http", the site's base
\* followed by the href otherwise
AbsoluteUrl(href) ==
    IF SubSeq(href, 1, 4) = <<"h", "t", "t", "p">> THEN href
    ELSE <<"h", "t", "t", "p", "s", ":", "/", "/", "w", "w", "w", ".",
           "c", "o", "n", "g", "r", "e", "s", "s", ".", "g", "o", "v">> \o href

UrlsEmitted ==
    /\ pc = "returned"
    /\ fn \in {"parse_overview", "parse_actions", "parse_committees", "parse_related"}
    /\ Container # NoneV
    /\ fn = "parse_overview" \/ (Container.v.thead /\ Container.v.header # NoneV)

\* C9: every URL put into the record (sponsor profile, committee report,
\* action link, committee related document, related bill) is the href of an
\* anchor of the page when that href starts with "http", and
\* "https://www.congress.gov" followed by the href otherwise.
C9_UrlsResolvedByPrefix ==
    UrlsEmitted => EmittedUrls \subseteq {AbsoluteUrl(h) : h \in PageHrefs}

CosponsorsReturned ==
    /\ HeaderRowThere
    /\ fn = "parse_consponsors"
    /\ pc = "returned"

\* C10: parse_consponsors emits one entry per body row, in order, under
\* either schema, and under the withdrawal schema every entry carries the
\* person, the date and a withdrawal record that is not None.
C10_OneEntryPerRow ==
    CosponsorsReturned =>
        /\ Len(bill.cosponsors.v) = Len(BodyRows)
        /\ \A i \in 1..Len(bill.cosponsors.v) :
              /\ bill.cosponsors.v[i].cosponsor.full_name # <<>>
              /\ bill.cosponsors.v[i].date # NoDate
              /\ SetOf(HeaderLabels) = cosponsors_schema_withdrawn
                    => bill.cosponsors.v[i].withdrawn # NoneV

\* the datetime each date text of the pages stands for
DateTexts ==
    (<<"0", "1", "/", "0", "4", "/", "2", "0", "2", "1">> :> [y |-> 2021, m |-> 1, d |-> 4, H |-> 0, M |-> 0])
    @@ (<<"0", "1", "/", "0", "5", "/", "2", "0", "2", "1", "-", "2", ":", "3", "0", "p", "m">> :> [y |-> 2021, m |-> 1, d |-> 5, H |-> 14, M |-> 30])
    @@ (<<"0", "2", "/", "0", "1", "/", "2", "0", "2", "1">> :> [y |-> 2021, m |-> 2, d |-> 1, H |-> 0, M |-> 0])

\* the text of the cell of row i under the column label, trimmed
TextUnder(label, i) == Strip(cell_text(BodyRows[i].tds[ColumnOf(label)]))

\* the anchors of a cell as link entries
LinksOf(cell) ==
    LET as == SelectSeq(cell, LAMBDA n : n.tag = "a")
    IN  [j \in 1..Len(as) |-> [text |-> Strip(as[j].s), url |-> AbsoluteUrl(as[j].href)]]

ActionsThreeColumns ==
    /\ HeaderRowThere
    /\ fn = "parse_actions"
    /\ SetOf(HeaderLabels) = actions_schema3
    /\ Container.v.tbody
    /\ \A i \in 1..Len(BodyRows) : TextUnder(c_date, i) \in DOMAIN DateTexts

\* C11: under {date, chamber, all actions}, whatever the order of the columns,
\* parse_actions run on n body rows whose dates are well formed returns with
\* n entries in the order of the rows, entry i holding the date, the chamber
\* as `by`, the action text and the links of row i.
C11_ThreeColumnRowsInOrder ==
    ActionsThreeColumns =>
        /\ pc = "returned"
        /\ Len(bill.actions.v) = Len(BodyRows)
        /\ \A i \in 1..Len(BodyRows) :
              bill.actions.v[i] =
                [date |-> DateTexts[TextUnder(c_date, i)],
                 by |-> Val(TextUnder(c_chamber, i)),
                 action |-> TextUnder(c_all_actions, i),
                 links |-> LinksOf(BodyRows[i].tds[ColumnOf(c_all_actions)])]

C11_Witness ==
    /\ ActionsThreeColumns
    /\ ColumnOf(c_all_actions) = 1
    /\ Len(BodyRows) = 2
    /\ bill.actions.v[1].date.H = 14
    /\ bill.actions.v[1].by = Val(<<"H", "o", "u", "s", "e">>)
    /\ bill.actions.v[2].date.H = 0
    /\ Len(bill.actions.v[2].links) = 2

\* C12: parse_consponsors run on a page without the cosponsors panel, or with
\* a panel without thead or without a header row, returns with cosponsors the
\* empty list and every other key as it was.
C12_NoCosponsorsHeader ==
    (fn = "parse_consponsors" /\ pc # "ready"
        /\ (Container = NoneV \/ ~Container.v.thead \/ Container.v.header = NoneV))
        => /\ pc = "returned"
           /\ bill = [bill0 EXCEPT !.cosponsors = Val(<<>>)]

C12_Witness ==
    /\ fn = "parse_consponsors"
    /\ pc = "returned"
    /\ Container # NoneV
    /\ ~Container.v.thead
    /\ bill.cosponsors = Val(<<>>)
    /\ bill0.cosponsors = Absent

-----------------------------------------------------------------------------
(* the batch *)

\* a run of parse() is over
RunOver == pc \in {"done", "raised"}

\* page i of the batch has a title that does not start with "All Info - "
OtherTitle(i) ==
    fs[i].file.title # NoneV /\ ~StartsWith(fs[i].file.title.v, <<"A", "l", "l", " ", "I", "n", "f", "o", " ", "-", " ">>)

\* page i of the batch has a title that starts with "All Info - "
AllInfoTitle(i) ==
    fs[i].file.title # NoneV /\ StartsWith(fs[i].file.title.v, <<"A", "l", "l", " ", "I", "n", "f", "o", " ", "-", " ">>)

\* what parse() did at page i
LoggedAt(i) == {log[k].op : k \in {j \in 1..Len(log) : log[j].at = i}}

\* the runs were over the same pages and every find_one returned
SamePagesAndStoreAnswers ==
    \A i \in 1..Len(log) : log[i].op \notin {"saved", "find_one raised"}

\* C13: running parse() on the same saved pages twice in succession leaves
\* the store as one run leaves it: the same records with the same field
\* values
C13_RerunLeavesTheStore ==
    (RunOver /\ runs >= 2 /\ SamePagesAndStoreAnswers) => collection = once

\* C14: a page whose title does not start with "All Info - " is skipped:
\* the store is neither read nor written for it and no extractor runs on
\* it, the step leaves the store and the extracted record alone and moves to
\* the next page, and a run that returns has processed every page whose
\* title has the prefix
C14_OtherTitleIsSkipped ==
    /\ [](\A i \in 1..Len(fs) : OtherTitle(i) => LoggedAt(i) = {})
    /\ [][(pc = "running" /\ at <= Len(fs) /\ OtherTitle(at)) =>
            /\ at' = at + 1
            /\ pc' = "running"
            /\ UNCHANGED <<collection, log, bill, exc>>]_vars
    /\ [](pc = "done" =>
            \A i \in 1..Len(fs) : AllInfoTitle(i) =>
                ({"find_one", "update_one"} \cup SetOf(Extractors)) \subseteq LoggedAt(i))

\* the first page was skipped and the second one extracted and stored
C14_Witness ==
    /\ pc = "done"
    /\ Len(fs) = 2
    /\ OtherTitle(1)
    /\ LoggedAt(1) = {}
    /\ "update_one" \in LoggedAt(2)
    /\ Len(collection) = 1
    /\ collection[1].number = bill_number(fs[2].file)

\* C15: the extractor sequence is a function of the page and of the initial
\* record: every run on them ends with the same record, the order of the
\* entries of every list included
C15_ExtractionIsAFunction ==
    (fn = "extract") =>
        \A r \in extract_outcomes(bill0, soup) : r.bill = bill /\ r.exc = exc

-----------------------------------------------------------------------------
(* the names of the identity decoders *)

\* a decoder returned for "<Title> <Last>, <First> [<pos>]..." with a title
\* of the fixed set
IdentityDecoded ==
    /\ IdentityCalled
    /\ arg.title \in valid_titles
    /\ pc = "returned"

\* C16: the decoders strip exactly the title: last_name is <Last> in full,
\* whatever letters it begins with
C16_LastNameInFull == IdentityDecoded => ret.v.last_name = arg.name[1]

\* C17: the name part is split on the first ", " only: last_name holds no
\* ", " and full_name is all the text after the first ", ", a space and
\* last_name, also when the name part has a second ", "
C17_SplitOnFirstComma ==
    IdentityDecoded =>
        /\ ~Contains(ret.v.last_name, <<",", " ">>)
        /\ ret.v.full_name = arg.name[2] \o <<" ">> \o ret.v.last_name

-----------------------------------------------------------------------------
(* the rows of the overview table *)

OverviewCalled == fn = "parse_overview" /\ pc # "ready"

\* the page has the overview table
HasOverviewTable ==
    /\ soup.wrapper # NoneV
    /\ soup.wrapper.v.overview # NoneV
    /\ soup.wrapper.v.overview.v # NoneV

OverviewTrs == soup.wrapper.v.overview.v.v

\* the keys the source skips
IgnoreList ==
    {<<"c", "o", "m", "m", "i", "t", "t", "e", "e", "s">>, <<"l", "a", "t", "e", "s", "t", "_", "a", "c", "t", "i", "o", "n">>, <<"l", "a", "t", "e", "s", "t", "_", "a", "c", "t", "i", "o", "n", "_", "(", "m", "o", "d", "i", "f", "i", "e", "d", ")">>, <<"r", "o", "l", "l", "_", "c", "a", "l", "l", "_", "v", "o", "t", "e", "s">>,
     <<"c", "o", "m", "m", "i", "t", "t", "e", "e", "_", "m", "e", "e", "t", "i", "n", "g", "s">>, <<"c", "o", "m", "m", "i", "t", "t", "e", "e", "_", "p", "r", "i", "n", "t", "s">>, <<"n", "o", "t", "e", "s">>}

\* the normalized key of a row: the text of its th, or of the first of its
\* two td
NormalizedKey(row) ==
    overview_key(cell_text((IF row.th # NoneV THEN row.th.v ELSE row.tds[1]).nodes))

\* the branch the key of row i belongs to
KeyKind(i) ==
    IF overview_kv(OverviewTrs[i]) = NoneV THEN "invalid"
    ELSE IF NormalizedKey(OverviewTrs[i]) = <<"s", "p", "o", "n", "s", "o", "r">> THEN "sponsor"
    ELSE IF NormalizedKey(OverviewTrs[i]) \in IgnoreList THEN "ignored"
    ELSE IF StartsWith(NormalizedKey(OverviewTrs[i]), <<"t", "r", "a", "c", "k", "e", "r">>) THEN "tracker"
    ELSE IF NormalizedKey(OverviewTrs[i]) = <<"c", "o", "m", "m", "i", "t", "t", "e", "e", "_", "r", "e", "p", "o", "r", "t", "s">> THEN "reports"
    ELSE "other"

KeyKinds == {KeyKind(i) : i \in 1..Len(OverviewTrs)}

\* C18: the key dispatch of parse_overview is closed: a row whose key is in
\* the ignore-list adds no field, the keys sponsor, tracker* and
\* committee_reports set sponsor, tracker and reports and nothing else, any
\* other key raises, and a call that raises leaves the record as it was on
\* entry
C18_KeyDispatchIsClosed ==
    OverviewCalled =>
        /\ pc = "raised" => bill = bill0
        /\ HasOverviewTable =>
            /\ "other" \in KeyKinds => pc = "raised"
            /\ KeyKinds \subseteq {"ignored"} => (pc = "returned" /\ bill = bill0)
            /\ pc = "returned" =>
                /\ bill.sponsor # bill0.sponsor <=> "sponsor" \in KeyKinds
                /\ bill.tracker # bill0.tracker <=> "tracker" \in KeyKinds
                /\ bill.reports # bill0.reports <=> "reports" \in KeyKinds
                /\ \A k \in BillFields \ {"sponsor", "tracker", "reports"} :
                        bill[k] = bill0[k]

\* a committee reports row followed by a row with the key "cosponsors": the
\* call raised and the reports of the first row are not in the record
C18_Witness ==
    /\ OverviewCalled
    /\ HasOverviewTable
    /\ Len(OverviewTrs) = 2
    /\ KeyKind(1) = "reports"
    /\ KeyKind(2) = "other"
    /\ pc = "raised"
    /\ exc = "NotImplementedError"
    /\ bill.reports = Absent

\* two ignored rows: the call returned the record as it was
C18_WitnessIgnored ==
    /\ OverviewCalled
    /\ HasOverviewTable
    /\ Len(OverviewTrs) = 2
    /\ KeyKinds = {"ignored"}
    /\ pc = "returned"

-----------------------------------------------------------------------------
(* the rendering of the authority statement *)

\* the fragments of the constAuthButton items of the page, in document order
RECURSIVE AuthorityFragments(_)
AuthorityFragments(divs) ==
    IF divs = <<>> THEN <<>>
    ELSE (IF Head(divs).h3 # NoneV /\ Strip(Head(divs).h3.v) = <<"M", "o", "r", "e", " ", "o", "n", " ", "T", "h", "i", "s", " ", "B", "i", "l", "l">>
          THEN SelectSeq(Head(divs).lis,
                         LAMBDA li : li.a_id = "constAuthButton" /\ li.msg # NoneV)
          ELSE <<>>)
         \o AuthorityFragments(Tail(divs))

\* the text of the nodes in document order up to the first h3, wherever it
\* is nested: s is the text, stop says that the h3 was met
RECURSIVE UpToHeading(_)
UpToHeading(children) ==
    IF children = <<>> THEN [s |-> <<>>, stop |-> FALSE]
    ELSE IF Head(children).tag = "h3" THEN [s |-> <<>>, stop |-> TRUE]
    ELSE LET here == IF Head(children).tag \in {"text", "a"}
                     THEN [s |-> Head(children).s, stop |-> FALSE]
                     ELSE IF Head(children).tag = "br"
                     THEN [s |-> <<"\n">>, stop |-> FALSE]
                     ELSE UpToHeading(Head(children).kids)
         IN  IF here.stop THEN here
             ELSE [s |-> here.s \o UpToHeading(Tail(children)).s,
                   stop |-> UpToHeading(Tail(children)).stop]

\* C19: an h3 ends the rendering of the authority statement: the statement
\* is made of the text before the first h3 in document order and of nothing
\* after it, also when the h3 is nested in a wrapper tag
C19_HeadingEndsRendering ==
    (fn = "parse_tertiary" /\ pc = "returned" /\ soup.wrapper # NoneV
        /\ soup.wrapper.v.tertiary # NoneV
        /\ AuthorityFragments(soup.wrapper.v.tertiary.v) # <<>>)
    => LET frs == AuthorityFragments(soup.wrapper.v.tertiary.v)
       IN  bill.constitutional_authority_statement =
                Val(authority_lines(Strip(UpToHeading(frs[Len(frs)].msg.v).s)))

\* the statement of the fragment with the nested heading, as the code
\* renders it
C19_NestedHeadingRendered ==
    /\ fn = "parse_tertiary"
    /\ pc = "returned"
    /\ bill.constitutional_authority_statement = Val(<<"C", "o", "n", "g", "r", "e", "s", "s", " ", "h", "a", "s", " ", "t", "h", "e", " ", "p", "o", "w", "e", "r", " ", "t", "o", " ", "t", "a", "x">>)

-----------------------------------------------------------------------------
(* parse_actions without a header row *)

\* the actions panel is not there, or it has no header row: no thead, or a
\* thead without tr
NoActionsHeader ==
    \/ soup.actions = NoneV
    \/ ~soup.actions.v.thead
    \/ soup.actions.v.header = NoneV

\* C20: parse_actions yields bill["actions"] == [] without raising whenever
\* the actions panel is absent or has no header row, the panel without a
\* thead included
C20_NoHeaderYieldsEmptyList ==
    (fn = "parse_actions" /\ pc # "ready" /\ NoActionsHeader)
        => (pc = "returned" /\ bill.actions = Val(<<>>))

\* the two cases that do yield the empty list: no panel, and a thead
\* without tr
C20_EmptyListYielded ==
    (fn = "parse_actions" /\ pc # "ready"
        /\ (soup.actions = NoneV \/ (soup.actions.v.thead /\ soup.actions.v.header = NoneV)))
        => (pc = "returned" /\ bill.actions = Val(<<>>))

-----------------------------------------------------------------------------
(* the dates of parse_committees *)

\* the text of the date cell of body row i: the td under the date column,
\* the th being the cell of the first column
CommitteeDateText(i) == Strip(cell_text(BodyRows[i].tds[ColumnOf(c_date) - 1]))

\* the date the text stands for: a date and time under "%m/%d/%Y-%I:%M%p",
\* a date under "%m/%d/%Y", None otherwise
DateOrNone(text) ==
    IF text \in DOMAIN DateTexts THEN Val(DateTexts[text]) ELSE NoneV

\* the rows have the cells the loop reads: the first row has a header cell
\* and every row with a header cell has a class
CommitteeRowsComplete ==
    /\ BodyRows # <<>> => BodyRows[1].th # NoneV
    /\ \A i \in 1..Len(BodyRows) : BodyRows[i].th # NoneV => BodyRows[i].class # NoneV

\* C21: parse_committees emits one entry per body row; the date of an entry
\* is the date and time of a cell that matches the timestamp pattern, the
\* date of a cell that matches the date pattern, and None for any other
\* cell, which raises no error
C21_DateOrNone ==
    /\ CommitteesReturned =>
        /\ Len(bill.committees.v) = Len(BodyRows)
        /\ \A i \in 1..Len(BodyRows) :
              bill.committees.v[i].date = DateOrNone(CommitteeDateText(i))
    /\ (HeaderRowThere /\ fn = "parse_committees"
            /\ SetOf(HeaderLabels) = committees_schema /\ Container.v.tbody
            /\ CommitteeRowsComplete)
        => pc = "returned"

\* three rows: a timestamp, a text that is no date, a date
C21_Witness ==
    /\ CommitteesReturned
    /\ Len(BodyRows) = 3
    /\ CommitteeDateText(2) = <<"n", "/", "a">>
    /\ bill.committees.v[1].date # NoneV
    /\ bill.committees.v[1].date.v.H = 14
    /\ bill.committees.v[2].date = NoneV
    /\ bill.committees.v[3].date # NoneV
    /\ bill.committees.v[3].date.v.H = 0

-----------------------------------------------------------------------------
(* the side panel of parse_subjects *)

\* the subject list items of the page in document order, trimmed; none when
\* div.search-column-main is not there
SubjectTexts ==
    IF Container.v.main = NoneV THEN <<>>
    ELSE [i \in 1..Len(Container.v.main.v) |-> Strip(Container.v.main.v[i])]

\* C22: the policy-area side panel is optional: with the subjects panel
\* there and the side panel absent or without entries, parse_subjects
\* returns with every subject list-item text collected; with more than one
\* entry in the side panel it raises
C22_SidePanelOptional ==
    SubjectsCalled =>
        /\ (Container.v.nav = NoneV \/ Container.v.nav.v = <<>>)
            => (pc = "returned" /\ bill.subjects = Val(SubjectTexts))
        /\ (Container.v.nav # NoneV /\ Len(Container.v.nav.v) > 1)
            => pc = "raised"

\* the two cases that hold: a side panel without entries, and one with more
\* than one entry
C22_SidePanelThere ==
    (SubjectsCalled /\ Container.v.nav # NoneV) =>
        /\ Container.v.nav.v = <<>>
            => (pc = "returned" /\ bill.subjects = Val(SubjectTexts))
        /\ Len(Container.v.nav.v) > 1 => (pc = "raised" /\ exc = "ValueError")

-----------------------------------------------------------------------------
(* the order of the batch *)

NineExtractors ==
    <<"parse_overview", "parse_tertiary", "parse_titles", "parse_actions",
      "parse_consponsors", "parse_committees", "parse_related", "parse_subjects",
      "parse_summaries">>

\* the position of a bill type in the list of the loop
TypeRank(type) == CHOOSE i \in 1..Len(bill_types) : bill_types[i] = type

\* what run r did at page i, in the order it did it
CallsAt(r, i) ==
    LET es == SelectSeq(log, LAMBDA e : e.run = r /\ e.at = i)
    IN  [k \in 1..Len(es) |-> es[k].op]

\* the extractor calls among calls
ExtractorCalls(calls) == SelectSeq(calls, LAMBDA op : op \in SetOf(NineExtractors))

\* C23: the pages are processed one at a time, bill type by bill type in
\* the order of the list and by ascending path within a type; at a page the
\* store is read first, the extractors run in the order overview, tertiary,
\* titles, actions, cosponsors, committees, related, subjects, summaries,
\* the write comes after all nine and before anything is done at the next
\* page
C23_OneAtATimeInOrder ==
    /\ \A i, j \in 1..Len(fs) : i < j =>
          \/ TypeRank(fs[i].type) < TypeRank(fs[j].type)
          \/ /\ fs[i].type = fs[j].type
             /\ str_less(path(fs[i].file), path(fs[j].file))
    /\ \A j, k \in 1..Len(log) : j < k =>
          \/ log[j].run < log[k].run
          \/ log[j].run = log[k].run /\ log[j].at <= log[k].at
    /\ \A r \in 0..runs : \A i \in 1..Len(fs) :
          LET calls == CallsAt(r, i)
          IN  /\ calls # <<>> => calls[1] = "find_one"
              /\ ExtractorCalls(calls)
                    = SubSeq(NineExtractors, 1, Len(ExtractorCalls(calls)))
              /\ "update_one" \in SetOf(calls) =>
                    /\ calls[Len(calls)] = "update_one"
                    /\ SubSeq(calls, Len(calls) - 9, Len(calls) - 1) = NineExtractors
              /\ (i < Len(fs) /\ CallsAt(r, i + 1) # <<>>) =>
                    (OtherTitle(i) \/ "update_one" \in SetOf(calls))

\* a house resolution and a house concurrent resolution, both extracted and
\* written, the resolution first
C23_Witness ==
    /\ pc = "done"
    /\ runs = 1
    /\ Len(fs) = 2
    /\ fs[1].type = <<"h", "o", "u", "s", "e", "-", "r", "e", "s", "o", "l", "u", "t", "i", "o", "n">>
    /\ fs[2].type = <<"h", "o", "u", "s", "e", "-", "c", "o", "n", "c", "u", "r", "r", "e", "n", "t", "-", "r", "e", "s", "o", "l", "u", "t", "i", "o", "n">>
    /\ Len(CallsAt(0, 1)) = 12
    /\ Len(CallsAt(0, 2)) = 12
    /\ log[12] = [op |-> "update_one", at |-> 1, run |-> 0]
    /\ log[14].at = 2

-----------------------------------------------------------------------------
(* the frame of the extractors *)

\* the keys of the record whose value the call changed
Changed == {k \in DOMAIN bill : bill[k] # bill0[k]}

\* policy_area was filled in from the subjects of a private bill
Backfilled ==
    /\ fn = "parse_subjects"
    /\ bill0.policy_area = NoneV
    /\ bill.policy_area = Val(<<"P", "r", "i", "v", "a", "t", "e", " ", "L", "e", "g", "i", "s", "l", "a", "t", "i", "o", "n">>)
    /\ <<"P", "r", "i", "v", "a", "t", "e", " ", "L", "e", "g", "i", "s", "l", "a", "t", "i", "o", "n">> \in PageSubjects

\* C24: an extractor changes only its own fields of the record, parse_subjects
\* policy_area too but only by the Private Legislation backfill, and no
\* extractor changes congress, type, number or source
C24_OwnFieldsOnly ==
    (pc # "ready" /\ fn \in SetOf(NineExtractors)) =>
        /\ Changed \subseteq (Written \cup {"policy_area"})
        /\ ("policy_area" \in Changed /\ fn # "parse_tertiary") => Backfilled
        /\ Changed \cap {"congress", "type", "number", "source"} = {}

\* parse_subjects returned with the subjects and the backfilled policy area
C24_Witness ==
    /\ pc = "returned"
    /\ fn = "parse_subjects"
    /\ Changed = {"subjects", "policy_area"}
    /\ Backfilled

-----------------------------------------------------------------------------
(* the store after a page *)

\* every find_one returned
StoreAnswers == \A k \in 1..Len(log) : log[k].op # "find_one raised"

\* C25: when an extractor raises at a page, the store is left as it was
\* before the page began: a bill that had no record has none afterwards
C25_RaiseLeavesTheStore ==
    [][(pc = "running" /\ pc' = "raised" /\ fn' = "extract")
            => collection' = collection]_vars

\* C26: the store holds at most one record per identity (congress, type,
\* number), whatever the runs were, the runs in which find_one raised and
\* read_local_db reported nothing found included
C26_OneRecordPerIdentity ==
    \A i, j \in 1..Len(collection) : matches(collection[i], collection[j]) => i = j

\* as long as every find_one returned, there is one record per identity
C26_OneRecordWhileStoreAnswers ==
    StoreAnswers => \A i, j \in 1..Len(collection) :
                matches(collection[i], collection[j]) => i = j

\* C27: after a page is processed without an exception, the record of its
\* bill in the store holds, for the fields of the extractors, what the
\* extractors produced from the page: a field an earlier run stored and the
\* page no longer yields is not in it
C27_NoStaleFields ==
    (fn = "extract" /\ exc = "none" /\ pc = "running" /\ StoreAnswers) =>
        /\ find_one(collection, bill) # 0
        /\ \A k \in BillFields : collection[find_one(collection, bill)][k] = bill[k]

\* on the first run over an empty store the record is what the extractors
\* produced
C27_FirstRunStoresTheRecord ==
    (fn = "extract" /\ exc = "none" /\ pc = "running" /\ runs = 0) =>
        /\ find_one(collection, bill) # 0
        /\ collection[find_one(collection, bill)] = bill

=============================================================================
